---- MODULE Spec2Model ----
(***************************************************************************)
(* Recommendation engine of Codex (backend/apps/catalog/services.py) and   *)
(* the recommendation endpoints (backend/apps/api/views_recommendations.py)*)
(* as a state machine over the data store, the process-wide cache and the  *)
(* value returned by the last call.                                        *)
(*                                                                         *)
(* ORM query chains are modelled by the rows they select, group and order; *)
(* an order the query leaves open (ties of order_by, tables without a      *)
(* default ordering) is a nondeterministic choice.                         *)
(***************************************************************************)
EXTENDS Integers, Sequences, FiniteSets, TLC

(***************************************************************************)
(* Bounds of the model                                                     *)
(***************************************************************************)
MaxRuns == 8
MaxLimit == 2
MaxOverlap == 2
MaxOwnRuns == 2
MaxRelations == 2
MaxNotes == 2
MaxLevel == 10

(***************************************************************************)
(* Identities.  NoUser is RecommendationService(user=None).                *)
(***************************************************************************)
NoUser == "anonymous"
Users == {"user1", "user2", "user3", "newuser"}
Products == {"product1", "product2", "product3", "product4", "product5"}

None == 0 - 1

ProductStatus == {"draft", "published", "verified"}
RunStatus == {"want_to_run", "running", "completed"}

\* Product rows: the three products of the service tests' setUp, created one
\* after another some seconds before the start, and a fourth of another game
\* system, type and publisher with no level range.
Catalog ==
  [p \in Products |->
     CASE p = "product1" ->
            [title |-> 1, tags |-> {"fantasy", "magic"},
             themes |-> {"heroic", "exploration"}, genres |-> {"adventure"},
             game_system |-> "test-system", publisher |-> "pub1",
             product_type |-> "adventure", authors |-> {},
             created_at |-> 0 - 30,
             level_range_min |-> 1, level_range_max |-> 5]
       [] p = "product2" ->
            [title |-> 2, tags |-> {"fantasy", "combat"},
             themes |-> {"dark", "survival"}, genres |-> {"adventure"},
             game_system |-> "test-system", publisher |-> "pub1",
             product_type |-> "adventure", authors |-> {},
             created_at |-> 0 - 20,
             level_range_min |-> 3, level_range_max |-> 7]
       [] p = "product3" ->
            [title |-> 3, tags |-> {"sci-fi", "space"},
             themes |-> {"exploration", "mystery"}, genres |-> {"sci-fi"},
             game_system |-> "test-system", publisher |-> "pub1",
             product_type |-> "adventure", authors |-> {"author1"},
             created_at |-> 0 - 10,
             level_range_min |-> 5, level_range_max |-> 10]
       [] p = "product5" ->
            [title |-> 5, tags |-> {"fantasy"}, themes |-> {}, genres |-> {},
             game_system |-> "other-system", publisher |-> "pub2",
             product_type |-> "adventure", authors |-> {}, created_at |-> 0,
             level_range_min |-> 0, level_range_max |-> 2]
       [] OTHER ->
            [title |-> 4, tags |-> {}, themes |-> {}, genres |-> {},
             game_system |-> "other-system", publisher |-> "pub2",
             product_type |-> "sourcebook", authors |-> {}, created_at |-> 0,
             level_range_min |-> None, level_range_max |-> None]]

VARIABLES
  pstatus,          \* Product.status of each product
  runs,             \* AdventureRun rows, by (user, product)
  notes,            \* number of CommunityNote rows of each Run
  relations,        \* ProductRelation rows
  follows,          \* UserFollow, PublisherFollow and AuthorFollow rows
  accounts,         \* the User rows that exist
  follower_count,   \* User.follower_count
  following_count,  \* User.following_count
  cache,            \* django.core.cache
  now,              \* the clock, in seconds
  reqs,             \* the requests in progress: position and local variables
  ret               \* the last completed call and its result

userVars == <<accounts, follower_count, following_count>>
dataVars == <<pstatus, runs, notes, relations, follows, userVars>>
vars == <<dataVars, cache, now, reqs, ret>>

\* The requests the server works on at the same time, and a request slot that
\* is free
Requests == {"request1", "request2"}
Idle == [pc |-> "idle"]

NoRun == [status |-> "none", rating |-> None, player_count |-> None,
          created_at |-> None, updated_at |-> None]
NoCall == [op |-> "none"]

Cells == Users \X Products
RunCells == {c \in Cells : runs[c] /= NoRun}
HasRun(u, p) == runs[<<u, p>>] /= NoRun
Rating(u, p) == runs[<<u, p>>].rating

(***************************************************************************)
(* django.core.cache                                                       *)
(***************************************************************************)
Key(kind, s1, s2, n1, n2) == <<kind, s1, s2, n1, n2>>

\* cache.get that returns an entry however old it is
CacheHit_NoExpiry(c, k) == k \in DOMAIN c

\* cache.get(key) is not None: the entry exists and has not expired
CacheHit(c, k) == k \in DOMAIN c /\ c[k].expires > now
CacheValue(c, k) == c[k].value
\* cache.set(key, value, timeout)
CacheSet(c, k, v, timeout) ==
  [x \in (DOMAIN c) \cup {k} |->
     IF x = k THEN [value |-> v, expires |-> now + timeout] ELSE c[x]]

TTL_SIMILAR_USERS == 21600
TTL_COLLABORATIVE == 3600

(***************************************************************************)
(* Ordering helpers                                                        *)
(***************************************************************************)
Min(a, b) == IF a < b THEN a ELSE b
Max(a, b) == IF a > b THEN a ELSE b

\* The sequences that list every element of S once
Orderings(S) ==
  {s \in [1..Cardinality(S) -> S] : \A i, j \in DOMAIN s : i /= j => s[i] /= s[j]}

\* seq[:limit]
Truncate(seq, limit) == SubSeq(seq, 1, Min(limit, Len(seq)))

\* order_by("-score") over the rows S, then [:limit]: every order the
\* database may produce (ties in any order)
OrderByScoreDesc(S, limit) ==
  {Truncate(s, limit) :
     s \in {o \in Orderings(S) :
              \A i, j \in DOMAIN o : i < j => o[i].score >= o[j].score}}

(***************************************************************************)
(* Collaborative filtering                                                 *)
(***************************************************************************)
\* AdventureRun.objects.filter(user=u, rating__gte=4).values_list("product_id")
UserLiked(u) == {p \in Products : HasRun(u, p) /\ Rating(u, p) >= 4}

\* AdventureRun.objects.filter(user=u).values_list("product_id")
UserProducts(u) == {p \in Products : HasRun(u, p)}

\* Count("product_id") of v's rows with rating >= 4 on the products u liked
SharedCount(u, v) == Cardinality(UserLiked(u) \cap UserLiked(v))

\* get_similar_users without .exclude(user=self.user)
SimilarUsersQuery_NoExclude(u, min_overlap) ==
  {v \in Users : SharedCount(u, v) >= 1 /\ SharedCount(u, v) >= min_overlap}

\* The grouped query of get_similar_users
SimilarUsersQuery(u, min_overlap) ==
  {v \in Users \ {u} : SharedCount(u, v) >= 1 /\ SharedCount(u, v) >= min_overlap}

\* get_similar_users that keeps the similar users for a day
get_similar_users_Day(u, min_overlap, c) ==
  LET k == Key("similar_users", u, "", min_overlap, 0) IN
  IF u = NoUser THEN [val |-> {}, cache |-> c, hit |-> FALSE]
  ELSE IF CacheHit(c, k)
    THEN [val |-> CacheValue(c, k) \cap Users, cache |-> c, hit |-> TRUE]
  ELSE IF Cardinality(UserLiked(u)) < min_overlap
    THEN [val |-> {}, cache |-> c, hit |-> FALSE]
  ELSE [val |-> SimilarUsersQuery(u, min_overlap),
        cache |-> CacheSet(c, k, SimilarUsersQuery(u, min_overlap),
                           24 * 60 * 60),
        hit |-> FALSE]

\* get_similar_users: [val: the users of the returned queryset, cache, hit]
get_similar_users(u, min_overlap, c) ==
  LET k == Key("similar_users", u, "", min_overlap, 0) IN
  IF u = NoUser THEN [val |-> {}, cache |-> c, hit |-> FALSE]
  ELSE IF CacheHit(c, k)
    THEN [val |-> CacheValue(c, k) \cap Users, cache |-> c, hit |-> TRUE]
  ELSE IF Cardinality(UserLiked(u)) < min_overlap
    THEN [val |-> {}, cache |-> c, hit |-> FALSE]
  ELSE [val |-> SimilarUsersQuery(u, min_overlap),
        cache |-> CacheSet(c, k, SimilarUsersQuery(u, min_overlap),
                           TTL_SIMILAR_USERS),
        hit |-> FALSE]

\* Fixed-point unit of Avg("rating"): averages over up to three raters are whole
RatingScale == 2 * 3

\* The rows selected for the candidates of u given the similar users sim
Recommenders(sim, p) == {v \in sim : HasRun(v, p) /\ Rating(v, p) >= 4}

\* The candidates without .exclude(product_id__in=user_products)
CollabCandidates_NoExclude(u, sim) ==
  {p \in Products : Recommenders(sim, p) /= {}}

CollabCandidates(u, sim) ==
  {p \in Products : Recommenders(sim, p) /= {} /\ p \notin UserProducts(u)}

RECURSIVE SumRatings(_, _)
SumRatings(S, p) ==
  IF S = {} THEN 0
  ELSE LET v == CHOOSE x \in S : TRUE IN Rating(v, p) + SumRatings(S \ {v}, p)

\* Avg("rating"), in units of 1/RatingScale
AvgRating(sim, p) ==
  (SumRatings(Recommenders(sim, p), p) * RatingScale)
     \div Cardinality(Recommenders(sim, p))

\* The score without the recommender count
CollabScore_AvgOnly(sim, p) == AvgRating(sim, p)

\* F("recommender_count") * F("avg_rating"), in units of 1/RatingScale
CollabScore(sim, p) == Cardinality(Recommenders(sim, p)) * AvgRating(sim, p)

CollabRows(u, sim) ==
  {[product |-> p, score |-> CollabScore(sim, p), reason |-> "similar_users"] :
     p \in CollabCandidates(u, sim)}

\* get_collaborative_recommendations: the possible outcomes
\* [val: the returned list, cache, hit, simHit]
get_collaborative_recommendations(u, limit, c) ==
  LET k == Key("collaborative", u, "", limit, 0)
      su == get_similar_users(u, 2, c)
  IN
  IF u = NoUser
    THEN {[val |-> <<>>, cache |-> c, hit |-> FALSE, simHit |-> FALSE]}
  ELSE IF CacheHit(c, k)
    THEN {[val |-> CacheValue(c, k), cache |-> c, hit |-> TRUE, simHit |-> FALSE]}
  ELSE IF su.val = {}
    THEN {[val |-> <<>>, cache |-> su.cache, hit |-> FALSE, simHit |-> su.hit]}
  ELSE {[val |-> scored,
         cache |-> CacheSet(su.cache, k, scored, TTL_COLLABORATIVE),
         hit |-> FALSE, simHit |-> su.hit] :
          scored \in OrderByScoreDesc(CollabRows(u, su.val), limit)}

(***************************************************************************)
(* Preference profile and content-based recommendations                   *)
(***************************************************************************)
TTL_PROFILE == 3600
TTL_CONTENT == 3600

\* Python truthiness of an optional integer field: None and 0 are false
Truthy(x) == x /= None /\ x /= 0

\* Counter.update over the rated runs: a key for each feature carried by some
\* liked product, counting the liked products that carry it
CounterOf(u, field) ==
  [t \in UNION {Catalog[p][field] : p \in UserLiked(u)} |->
     Cardinality({p \in UserLiked(u) : t \in Catalog[p][field]})]

LevelRanges(u) ==
  {<<Catalog[p].level_range_min, Catalog[p].level_range_max>> :
     p \in {q \in UserLiked(u) :
              Truthy(Catalog[q].level_range_min) /\ Truthy(Catalog[q].level_range_max)}}

SetMin(S) == CHOOSE x \in S : \A y \in S : x <= y
SetMax(S) == CHOOSE x \in S : \A y \in S : x >= y

PartyRuns(u) == {p \in UserLiked(u) : Truthy(runs[<<u, p>>].player_count)}

RECURSIVE SumPartySizes(_, _)
SumPartySizes(u, S) ==
  IF S = {} THEN 0
  ELSE LET p == CHOOSE x \in S : TRUE
       IN runs[<<u, p>>].player_count + SumPartySizes(u, S \ {p})

\* Python round(s / n): to the nearest integer, a tie to the even one
Round(s, n) ==
  LET q == s \div n
      r == s % n
  IN IF 2 * r < n THEN q
     ELSE IF 2 * r > n THEN q + 1
     ELSE IF q % 2 = 0 THEN q ELSE q + 1

\* level_range = None
NoRange == <<>>

EmptyProfile ==
  [tags |-> <<>>, themes |-> <<>>, genres |-> <<>>,
   preferred_systems |-> {}, preferred_publishers |-> {},
   level_range |-> NoRange, typical_party_size |-> None]

BuildProfile(u) ==
  [tags |-> CounterOf(u, "tags"),
   themes |-> CounterOf(u, "themes"),
   genres |-> CounterOf(u, "genres"),
   preferred_systems |-> {Catalog[p].game_system : p \in UserLiked(u)},
   preferred_publishers |-> {Catalog[p].publisher : p \in UserLiked(u)},
   level_range |->
     IF LevelRanges(u) = {} THEN NoRange
     ELSE <<SetMin({r[1] : r \in LevelRanges(u)}),
            SetMax({r[2] : r \in LevelRanges(u)})>>,
   typical_party_size |->
     IF PartyRuns(u) = {} THEN None
     ELSE Round(SumPartySizes(u, PartyRuns(u)), Cardinality(PartyRuns(u)))]

\* get_user_profile on a fresh service: [val, cache, hit]
get_user_profile(u, c) ==
  LET k == Key("profile", u, "", 0, 0) IN
  IF u = NoUser THEN [val |-> EmptyProfile, cache |-> c, hit |-> FALSE]
  ELSE IF CacheHit(c, k)
    THEN [val |-> CacheValue(c, k), cache |-> c, hit |-> TRUE]
  ELSE [val |-> BuildProfile(u),
        cache |-> CacheSet(c, k, BuildProfile(u), TTL_PROFILE), hit |-> FALSE]

\* Scores are kept as integers: the score times ScoreScale
ScoreScale == 10 * 27720

\* The overlap ratio with the ranges measured without their last point
_calculate_range_overlap_Exclusive(range1, range2) ==
  LET overlap_start == Max(range1[1], range2[1])
      overlap_end == Min(range1[2], range2[2])
  IN IF overlap_start > overlap_end THEN 0
     ELSE ((overlap_end - overlap_start) * ScoreScale)
            \div (Max(range1[2], range2[2]) - Min(range1[1], range2[1]) + 1)

\* overlap / union of two inclusive ranges, times ScoreScale
_calculate_range_overlap(range1, range2) ==
  LET overlap_start == Max(range1[1], range2[1])
      overlap_end == Min(range1[2], range2[2])
  IN IF overlap_start > overlap_end THEN 0
     ELSE ((overlap_end - overlap_start + 1) * ScoreScale)
            \div (Max(range1[2], range2[2]) - Min(range1[1], range2[1]) + 1)

\* weight (in tenths) * |a & b| / |a | b|, times ScoreScale
Jaccard(weight, a, b) ==
  IF a = {} \/ b = {} THEN 0
  ELSE (weight * (ScoreScale \div 10) * Cardinality(a \cap b))
         \div Cardinality(a \cup b)

_similarity_score(profile, product) ==
  Jaccard(10, DOMAIN profile.tags, product.tags)
  + Jaccard(8, DOMAIN profile.themes, product.themes)
  + Jaccard(9, DOMAIN profile.genres, product.genres)
  + (IF product.game_system /= "" /\ product.game_system \in profile.preferred_systems
       THEN 7 * (ScoreScale \div 10) ELSE 0)
  + (IF product.publisher /= "" /\ product.publisher \in profile.preferred_publishers
       THEN 4 * (ScoreScale \div 10) ELSE 0)
  + (IF profile.level_range /= NoRange
        /\ Truthy(product.level_range_min) /\ Truthy(product.level_range_max)
       THEN (5 * _calculate_range_overlap(
                   profile.level_range,
                   <<product.level_range_min, product.level_range_max>>))
              \div 10
       ELSE 0)

\* The candidates without .exclude(id__in=user_products)
ContentCandidates_WithSeen(u) == {p \in Products : pstatus[p] = "published"}

\* Product.objects.filter(status="published").exclude(id__in=user_products)
ContentCandidates(u) ==
  {p \in Products : pstatus[p] = "published" /\ p \notin UserProducts(u)}

\* ContentRows keeping the candidates that score 0
ContentRows_NonNegative(u, profile) ==
  {[product |-> p, score |-> _similarity_score(profile, Catalog[p]),
    reason |-> "similar_content"] :
     p \in {q \in ContentCandidates(u) : _similarity_score(profile, Catalog[q]) >= 0}}

ContentRows(u, profile) ==
  {[product |-> p, score |-> _similarity_score(profile, Catalog[p]),
    reason |-> "similar_content"] :
     p \in {q \in ContentCandidates(u) : _similarity_score(profile, Catalog[q]) > 0}}

\* The candidates come in Product's default order (title); the sort by score
\* is stable
OrderByScoreThenTitle(S, limit) ==
  {Truncate(s, limit) :
     s \in {o \in Orderings(S) :
              \A i, j \in DOMAIN o :
                 i < j =>
                   \/ o[i].score > o[j].score
                   \/ /\ o[i].score = o[j].score
                      /\ Catalog[o[i].product].title < Catalog[o[j].product].title}}

\* get_content_recommendations: the possible outcomes
get_content_recommendations(u, limit, c) ==
  LET k == Key("content", u, "", limit, 0)
      pr == get_user_profile(u, c)
  IN
  IF u = NoUser
    THEN {[val |-> <<>>, cache |-> c, hit |-> FALSE, profileHit |-> FALSE]}
  ELSE IF CacheHit(c, k)
    THEN {[val |-> CacheValue(c, k), cache |-> c, hit |-> TRUE,
           profileHit |-> FALSE]}
  ELSE {[val |-> scored, cache |-> CacheSet(pr.cache, k, scored, TTL_CONTENT),
         hit |-> FALSE, profileHit |-> pr.hit] :
          scored \in OrderByScoreThenTitle(ContentRows(u, pr.val), limit)}

\* get_similar_products: the profile built from the product itself
TTL_SIMILAR_PRODUCTS == 86400

ProductProfile(p) ==
  [tags |-> [t \in Catalog[p].tags |-> 1],
   themes |-> [t \in Catalog[p].themes |-> 1],
   genres |-> [t \in Catalog[p].genres |-> 1],
   preferred_systems |->
     IF Catalog[p].game_system /= "" THEN {Catalog[p].game_system} ELSE {},
   preferred_publishers |->
     IF Catalog[p].publisher /= "" THEN {Catalog[p].publisher} ELSE {},
   level_range |->
     IF Truthy(Catalog[p].level_range_min) /\ Truthy(Catalog[p].level_range_max)
       THEN <<Catalog[p].level_range_min, Catalog[p].level_range_max>>
       ELSE NoRange,
   typical_party_size |-> None]

\* The published products other than p that score more than 0.1
SimilarProductRows(p) ==
  {[product |-> q, score |-> _similarity_score(ProductProfile(p), Catalog[q]),
    reason |-> "similar_to_product"] :
     q \in {x \in Products \ {p} :
              /\ pstatus[x] = "published"
              /\ _similarity_score(ProductProfile(p), Catalog[x]) > ScoreScale \div 10}}

get_similar_products(p, limit, c) ==
  LET k == Key("similar_products", p, "", limit, 0) IN
  IF CacheHit(c, k)
    THEN {[val |-> CacheValue(c, k), cache |-> c, hit |-> TRUE]}
  ELSE {[val |-> scored, cache |-> CacheSet(c, k, scored, TTL_SIMILAR_PRODUCTS),
         hit |-> FALSE] :
          scored \in OrderByScoreThenTitle(SimilarProductRows(p), limit)}

(***************************************************************************)
(* From following and new releases                                         *)
(***************************************************************************)
TTL_FOLLOWING == 1800
TTL_NEW_RELEASES == 3600
SecondsPerDay == 86400

Followed(kind, u) == {f[3] : f \in {g \in follows : g[1] = kind /\ g[2] = u}}

\* The Runs rated >= 4 by followed users on products u has no Run on
FollowingRuns(u) ==
  {c \in RunCells :
     /\ c[1] \in Followed("user", u)
     /\ runs[c].rating >= 4
     /\ c[2] \notin UserProducts(u)}

\* One ScoredProduct per selected Run, scored by run.updated_at
FollowingRow(c) ==
  [product |-> c[2], score |-> runs[c].updated_at, reason |-> "from_following",
   source |-> [type |-> "user", id |-> c[1], rating |-> runs[c].rating]]

\* The selected Runs ordered by the time they were created
FollowingLists_ByCreation(u, limit) ==
  {Truncate([i \in DOMAIN o |-> FollowingRow(o[i])], limit) :
     o \in {x \in Orderings(FollowingRuns(u)) :
              \A i, j \in DOMAIN x :
                 i < j => runs[x[i]].created_at >= runs[x[j]].created_at}}

\* order_by("-updated_at")[:limit], equal times in any order
FollowingLists(u, limit) ==
  {Truncate([i \in DOMAIN o |-> FollowingRow(o[i])], limit) :
     o \in {x \in Orderings(FollowingRuns(u)) :
              \A i, j \in DOMAIN x :
                 i < j => runs[x[i]].updated_at >= runs[x[j]].updated_at}}

get_from_following(u, limit, c) ==
  LET k == Key("following", u, "", limit, 0) IN
  IF u = NoUser THEN {[val |-> <<>>, cache |-> c, hit |-> FALSE]}
  ELSE IF CacheHit(c, k)
    THEN {[val |-> CacheValue(c, k), cache |-> c, hit |-> TRUE]}
  ELSE IF Followed("user", u) = {}
    THEN {[val |-> <<>>, cache |-> c, hit |-> FALSE]}
  ELSE {[val |-> scored, cache |-> CacheSet(c, k, scored, TTL_FOLLOWING),
         hit |-> FALSE] : scored \in FollowingLists(u, limit)}

\* Published products of a followed publisher or author created since the cutoff
NewReleaseProducts(u, days) ==
  {p \in Products :
     /\ \/ Catalog[p].publisher \in Followed("publisher", u)
        \/ Catalog[p].authors \cap Followed("author", u) /= {}
     /\ pstatus[p] = "published"
     /\ Catalog[p].created_at >= now - days * SecondsPerDay}

\* order_by("-created_at")[:limit], equal times in any order
NewReleaseLists(u, days, limit) ==
  {Truncate(o, limit) :
     o \in {x \in Orderings(NewReleaseProducts(u, days)) :
              \A i, j \in DOMAIN x :
                 i < j => Catalog[x[i]].created_at >= Catalog[x[j]].created_at}}

\* Product.objects.filter(id__in=cached): every cached product, by title
ByTitle(S) ==
  CHOOSE o \in Orderings(S) :
    \A i, j \in DOMAIN o : i < j => Catalog[o[i]].title < Catalog[o[j]].title

get_new_releases(u, days, limit, c) ==
  LET k == Key("new_releases", u, "", days, limit) IN
  IF u = NoUser THEN {[val |-> <<>>, cache |-> c, hit |-> FALSE]}
  ELSE IF CacheHit(c, k)
    THEN {[val |-> ByTitle({CacheValue(c, k)[i] : i \in DOMAIN CacheValue(c, k)}),
           cache |-> c, hit |-> TRUE]}
  ELSE IF Followed("publisher", u) = {} /\ Followed("author", u) = {}
    THEN {[val |-> <<>>, cache |-> c, hit |-> FALSE]}
  ELSE {[val |-> products, cache |-> CacheSet(c, k, products, TTL_NEW_RELEASES),
         hit |-> FALSE] : products \in NewReleaseLists(u, days, limit)}

\* get_suggested_follows: empty for a missing user and for a user with no Run
\* rated 4 or more; otherwise the queryset annotates Count("notes__votes") on
\* User, which has no relation named notes (CommunityNote hangs off
\* AdventureRun), so building it raises FieldError.  Nothing is cached.
get_suggested_follows(u, limit) ==
  IF u = NoUser \/ UserLiked(u) = {}
    THEN [val |-> <<>>, error |-> "none"]
    ELSE [val |-> <<>>, error |-> "FieldError"]

(***************************************************************************)
(* Follow-ups                                                              *)
(***************************************************************************)
RelationType ==
  {"sequel", "prequel", "conversion", "compilation", "expansion", "related"}

TTL_FOLLOW_UPS == 3600

\* priority_map with two of its entries exchanged
priority_map_Swapped(relation_type) ==
  CASE relation_type = "sequel" -> 10
    [] relation_type = "expansion" -> 8
    [] relation_type = "prequel" -> 9
    [] relation_type = "conversion" -> 7
    [] relation_type = "related" -> 6
    [] OTHER -> 5

\* priority_map.get(relation.relation_type, 0.5), in tenths
priority_map(relation_type) ==
  CASE relation_type = "sequel" -> 10
    [] relation_type = "expansion" -> 9
    [] relation_type = "prequel" -> 8
    [] relation_type = "conversion" -> 7
    [] relation_type = "related" -> 6
    [] OTHER -> 5

\* The completed products taken as every product the user has a Run on
CompletedIds_AnyStatus(u) == {p \in Products : HasRun(u, p)}

\* AdventureRun.objects.filter(user=u, status=COMPLETED).values_list("product_id")
CompletedIds(u) ==
  {p \in Products : HasRun(u, p) /\ runs[<<u, p>>].status = "completed"}

\* The relations that leave a completed product and reach a product without a Run
FollowUpRelations(u) ==
  {r \in relations : r[1] \in CompletedIds(u) /\ r[2] \notin UserProducts(u)}

FollowUpRow(r) ==
  [product |-> r[2], score |-> priority_map(r[3]),
   reason |-> <<"follow_up", r[3]>>]

\* scored.sort(key=score, reverse=True)[:limit] over the relations in any
\* order the database returns them
FollowUpLists(u, limit) ==
  {Truncate([i \in DOMAIN o |-> FollowUpRow(o[i])], limit) :
     o \in {x \in Orderings(FollowUpRelations(u)) :
              \A i, j \in DOMAIN x :
                 i < j => priority_map(x[i][3]) >= priority_map(x[j][3])}}

\* get_follow_ups that stores the [] of a user without completed Runs
get_follow_ups_StoreEarly(u, limit, c) ==
  LET k == Key("follow_ups", u, "", limit, 0) IN
  IF u = NoUser THEN {[val |-> <<>>, cache |-> c, hit |-> FALSE]}
  ELSE IF CacheHit(c, k)
    THEN {[val |-> CacheValue(c, k), cache |-> c, hit |-> TRUE]}
  ELSE IF CompletedIds(u) = {}
    THEN {[val |-> <<>>, cache |-> CacheSet(c, k, <<>>, TTL_FOLLOW_UPS),
           hit |-> FALSE]}
  ELSE {[val |-> scored, cache |-> CacheSet(c, k, scored, TTL_FOLLOW_UPS),
         hit |-> FALSE] : scored \in FollowUpLists(u, limit)}

\* get_follow_ups: the possible outcomes [val, cache, hit]
get_follow_ups(u, limit, c) ==
  LET k == Key("follow_ups", u, "", limit, 0) IN
  IF u = NoUser THEN {[val |-> <<>>, cache |-> c, hit |-> FALSE]}
  ELSE IF CacheHit(c, k)
    THEN {[val |-> CacheValue(c, k), cache |-> c, hit |-> TRUE]}
  ELSE IF CompletedIds(u) = {}
    THEN {[val |-> <<>>, cache |-> c, hit |-> FALSE]}
  ELSE {[val |-> scored, cache |-> CacheSet(c, k, scored, TTL_FOLLOW_UPS),
         hit |-> FALSE] : scored \in FollowUpLists(u, limit)}

(***************************************************************************)
(* Trending and top rated                                                  *)
(***************************************************************************)
TTL_TRENDING == 3600
TTL_TOP_RATED == 86400

\* AdventureRun rows created since the cutoff on a published product
TrendingRuns(p, days) ==
  {u \in Users :
     /\ HasRun(u, p)
     /\ runs[<<u, p>>].created_at >= now - days * SecondsPerDay
     /\ pstatus[p] = "published"}

\* Rows of a Run in the join with its notes: one per note, one without notes
JoinRows(u, p) == IF notes[<<u, p>>] = 0 THEN 1 ELSE notes[<<u, p>>]

RECURSIVE SumOver(_, _, _)
SumOver(S, p, weigh) ==
  IF S = {} THEN 0
  ELSE LET u == CHOOSE x \in S : TRUE
       IN (IF weigh = "rows" THEN JoinRows(u, p) ELSE notes[<<u, p>>])
            + SumOver(S \ {u}, p, weigh)

\* Count("id", filter=Q(status=...)) over the joined rows
StatusCount(p, days, st) ==
  SumOver({u \in TrendingRuns(p, days) : runs[<<u, p>>].status = st}, p, "rows")

\* Count("notes", distinct=True)
NotesCount(p, days) == SumOver(TrendingRuns(p, days), p, "notes")

\* The trending score that leaves the planned Runs out
TrendingScore_NoWant(p, days) ==
  4 * StatusCount(p, days, "completed") + NotesCount(p, days)

\* want_to_run_count * 1.0 + completed_count * 2.0 + notes_count * 0.5, in halves
TrendingScore(p, days) ==
  2 * StatusCount(p, days, "want_to_run")
  + 4 * StatusCount(p, days, "completed")
  + NotesCount(p, days)

\* .filter(score__gte=1): the groups are the products with a Run in the window
TrendingRows(days) ==
  {[product |-> p, score |-> TrendingScore(p, days), reason |-> "trending"] :
     p \in {q \in Products :
              TrendingRuns(q, days) /= {} /\ TrendingScore(q, days) >= 2}}

\* get_trending: the possible outcomes
get_trending(days, limit, c) ==
  LET k == Key("trending", "", "", days, limit) IN
  IF CacheHit(c, k)
    THEN {[val |-> CacheValue(c, k), cache |-> c, hit |-> TRUE]}
  ELSE {[val |-> scored, cache |-> CacheSet(c, k, scored, TTL_TRENDING),
         hit |-> FALSE] : scored \in OrderByScoreDesc(TrendingRows(days), limit)}

\* Count("adventure_runs__rating"): the Runs of p that carry a rating
TotalRatings(p) == Cardinality({u \in Users : HasRun(u, p) /\ Rating(u, p) /= None})
PositiveRatings(p) == Cardinality({u \in Users : HasRun(u, p) /\ Rating(u, p) >= 4})

\* The filters of get_top_rated with two ratings taken as enough
TopRatedProducts_TwoRatings(game_system, product_type) ==
  {p \in Products :
     /\ pstatus[p] = "published"
     /\ game_system /= "" => Catalog[p].game_system = game_system
     /\ product_type /= "" => Catalog[p].product_type = product_type
     /\ TotalRatings(p) >= 2}

\* Q(status="published") & the supplied filters, then total_ratings >= 3
TopRatedProducts(game_system, product_type) ==
  {p \in Products :
     /\ pstatus[p] = "published"
     /\ game_system /= "" => Catalog[p].game_system = game_system
     /\ product_type /= "" => Catalog[p].product_type = product_type
     /\ TotalRatings(p) >= 3}

\* F(positive) / F(total) on two integer counts
_wilson_score_expression(positive, total) == positive \div total

TopRatedRows(game_system, product_type) ==
  {[product |-> p,
    score |-> _wilson_score_expression(PositiveRatings(p), TotalRatings(p)),
    reason |-> "top_rated"] : p \in TopRatedProducts(game_system, product_type)}

\* get_top_rated: the possible outcomes; "" stands for a filter not supplied
get_top_rated(game_system, product_type, limit, c) ==
  LET k == Key("top_rated", game_system, product_type, limit, 0) IN
  IF CacheHit(c, k)
    THEN {[val |-> CacheValue(c, k), cache |-> c, hit |-> TRUE]}
  ELSE {[val |-> scored, cache |-> CacheSet(c, k, scored, TTL_TOP_RATED),
         hit |-> FALSE] :
          scored \in OrderByScoreDesc(TopRatedRows(game_system, product_type), limit)}

(***************************************************************************)
(* Home feed                                                               *)
(***************************************************************************)
EmptyForYou ==
  [collaborative |-> <<>>, content_based |-> <<>>, from_following |-> <<>>,
   follow_ups |-> <<>>, trending |-> <<>>, new_releases |-> <<>>]

\* get_for_you: the six recommenders one after another on the same cache
get_for_you(u, c) ==
  IF u = NoUser
    THEN {[val |-> [EmptyForYou EXCEPT !.trending = t.val], cache |-> t.cache,
           hit |-> t.hit] : t \in get_trending(30, 10, c)}
  ELSE UNION UNION UNION UNION UNION
    {{{{{{[val |-> [collaborative |-> co.val, content_based |-> cb.val,
                    from_following |-> ff.val, follow_ups |-> fu.val,
                    trending |-> tr.val, new_releases |-> nr.val],
           cache |-> nr.cache, hit |-> tr.hit] :
            nr \in get_new_releases(u, 90, 5, tr.cache)} :
           tr \in get_trending(30, 10, fu.cache)} :
          fu \in get_follow_ups(u, 5, ff.cache)} :
         ff \in get_from_following(u, 5, cb.cache)} :
        cb \in get_content_recommendations(u, 5, co.cache)} :
       co \in get_collaborative_recommendations(u, 5, c)}

\* RecommendationViewSet.list: the response body and status
list(u, c) ==
  IF u = NoUser
    THEN {[val |-> EmptyForYou, cache |-> c, hit |-> FALSE]}
  ELSE get_for_you(u, c)

(***************************************************************************)
(* The trending endpoint and its query parameters                          *)
(***************************************************************************)
\* A query parameter: not sent, a decimal integer, or other text
Absent == [kind |-> "absent", n |-> 0]
Text == [kind |-> "text", n |-> 0]
Number(n) == [kind |-> "int", n |-> n]

\* int(request.query_params.get(name, default)): ValueError on other text
int(param, default) ==
  CASE param.kind = "absent" -> [error |-> FALSE, n |-> default]
    [] param.kind = "int" -> [error |-> FALSE, n |-> param.n]
    [] OTHER -> [error |-> TRUE, n |-> 0]

CEILING_LIMIT == 50
CEILING_DAYS == 365

\* The limit passed on as requested
ClampLimit_Unclamped(n) == n

\* min(int(...), 50)
ClampLimit(n) == Min(n, CEILING_LIMIT)

\* RecommendationViewSet.trending: the status and the body of the response.
\* An exception in the view (ValueError of int(), the refusal of a negative
\* queryset slice on a cache miss) is answered 500.
trending(days_param, limit_param, c) ==
  LET d == int(days_param, 30)
      l == int(limit_param, 20)
      days == Min(d.n, CEILING_DAYS)
      limit == ClampLimit(l.n)
  IN
  IF d.error \/ l.error
    THEN {[status |-> 500, val |-> <<>>, cache |-> c, days |-> 0, limit |-> 0]}
  ELSE IF limit < 0 /\ ~CacheHit(c, Key("trending", "", "", days, limit))
    THEN {[status |-> 500, val |-> <<>>, cache |-> c, days |-> days,
           limit |-> limit]}
  ELSE {[status |-> 200, val |-> r.val, cache |-> r.cache, days |-> days,
         limit |-> limit] : r \in get_trending(days, limit, c)}

(***************************************************************************)
(* Failing reads.  The engine has no try/except: an exception raised by     *)
(* cache.get or by a query leaves the operation at that statement.  Each    *)
(* operator gives the possible outcomes of a call in which one read fails:  *)
(* the read that failed, the keys of the operations then in progress, and   *)
(* the cache as the statements before it left it.                           *)
(***************************************************************************)
\* The reads of an operation that looks up key k and queries the store on a miss
RaisesAt(k, c) ==
  {[at |-> a, keys |-> {k}, cache |-> c, raised |-> TRUE, val |-> <<>>] :
     a \in IF CacheHit(c, k) THEN {"cache"} ELSE {"cache", "store"}}

InProgress(k, S) == {[r EXCEPT !.keys = r.keys \cup {k}] : r \in S}

get_user_profile_raises(u, c) ==
  IF u = NoUser THEN {} ELSE RaisesAt(Key("profile", u, "", 0, 0), c)

get_similar_users_raises(u, min_overlap, c) ==
  IF u = NoUser THEN {} ELSE RaisesAt(Key("similar_users", u, "", min_overlap, 0), c)

get_collaborative_recommendations_raises(u, limit, c) ==
  LET k == Key("collaborative", u, "", limit, 0)
      su == get_similar_users(u, 2, c)
  IN
  IF u = NoUser THEN {}
  ELSE IF CacheHit(c, k) THEN RaisesAt(k, c)
  ELSE [at : {"cache"}, keys : {{k}}, cache : {c}, raised : {TRUE}, val : {<<>>}]
       \cup InProgress(k, get_similar_users_raises(u, 2, c))
       \cup (IF su.val = {} THEN {}
             ELSE {[at |-> "store", keys |-> {k}, cache |-> su.cache,
                    raised |-> TRUE, val |-> <<>>]})

get_content_recommendations_raises(u, limit, c) ==
  LET k == Key("content", u, "", limit, 0)
      pr == get_user_profile(u, c)
  IN
  IF u = NoUser THEN {}
  ELSE IF CacheHit(c, k) THEN RaisesAt(k, c)
  ELSE [at : {"cache"}, keys : {{k}}, cache : {c}, raised : {TRUE}, val : {<<>>}]
       \cup InProgress(k, get_user_profile_raises(u, c))
       \cup {[at |-> "store", keys |-> {k}, cache |-> pr.cache,
              raised |-> TRUE, val |-> <<>>]}

get_from_following_raises(u, limit, c) ==
  IF u = NoUser THEN {} ELSE RaisesAt(Key("following", u, "", limit, 0), c)

get_follow_ups_raises(u, limit, c) ==
  IF u = NoUser THEN {} ELSE RaisesAt(Key("follow_ups", u, "", limit, 0), c)

get_trending_raises(days, limit, c) ==
  RaisesAt(Key("trending", "", "", days, limit), c)

get_new_releases_raises(u, days, limit, c) ==
  IF u = NoUser THEN {} ELSE RaisesAt(Key("new_releases", u, "", days, limit), c)

\* The caches get_for_you can hold once its first n recommenders have returned
RECURSIVE ForYouPrefix(_, _, _)
ForYouPrefix(u, c, n) ==
  IF n = 0 THEN {c}
  ELSE UNION {
    CASE n = 1 -> {r.cache : r \in get_collaborative_recommendations(u, 5, x)}
      [] n = 2 -> {r.cache : r \in get_content_recommendations(u, 5, x)}
      [] n = 3 -> {r.cache : r \in get_from_following(u, 5, x)}
      [] n = 4 -> {r.cache : r \in get_follow_ups(u, 5, x)}
      [] OTHER -> {r.cache : r \in get_trending(30, 10, x)} :
    x \in ForYouPrefix(u, c, n - 1)}

\* list(self.get_new_releases(limit=5)): get_new_releases has returned a lazy
\* queryset (none() on its early exits, which reads nothing) and get_for_you
\* evaluates it
NewReleasesListRaises(u, c) ==
  {[at |-> "store", keys |-> {}, cache |-> r.cache, raised |-> TRUE, val |-> <<>>] :
     r \in {x \in get_new_releases(u, 90, 5, c) :
              x.hit \/ Followed("publisher", u) /= {} \/ Followed("author", u) /= {}}}

\* get_for_you in which a read of one recommender fails, the failure swallowed
\* and the section left empty
get_for_you_raises_EmptySection(u, c) ==
  {[at |-> r.at, keys |-> r.keys, cache |-> r.cache, raised |-> FALSE,
    val |-> EmptyForYou] : r \in get_trending_raises(30, 10, c)}

\* get_for_you in which a read of one recommender fails: the statements of the
\* recommenders before it have run, the exception leaves get_for_you
get_for_you_raises(u, c) ==
  IF u = NoUser THEN get_trending_raises(30, 10, c)
  ELSE
    UNION {get_collaborative_recommendations_raises(u, 5, x) : x \in ForYouPrefix(u, c, 0)}
    \cup UNION {get_content_recommendations_raises(u, 5, x) : x \in ForYouPrefix(u, c, 1)}
    \cup UNION {get_from_following_raises(u, 5, x) : x \in ForYouPrefix(u, c, 2)}
    \cup UNION {get_follow_ups_raises(u, 5, x) : x \in ForYouPrefix(u, c, 3)}
    \cup UNION {get_trending_raises(30, 10, x) : x \in ForYouPrefix(u, c, 4)}
    \cup UNION {get_new_releases_raises(u, 90, 5, x) : x \in ForYouPrefix(u, c, 5)}
    \cup UNION {NewReleasesListRaises(u, x) : x \in ForYouPrefix(u, c, 5)}

(***************************************************************************)
(* Initial states                                                          *)
(***************************************************************************)
Run(st, rating, pc) ==
  [status |-> st, rating |-> rating, player_count |-> pc, created_at |-> 0,
   updated_at |-> 0]

\* The rows created by the service tests' setUp
FixtureRuns ==
  [c \in Cells |->
     CASE c = <<"user1", "product1">> -> Run("completed", 5, 4)
       [] c = <<"user1", "product2">> -> Run("completed", 4, 4)
       [] c = <<"user2", "product1">> -> Run("completed", 5, 3)
       [] c = <<"user2", "product2">> -> Run("completed", 4, 3)
       [] c = <<"user2", "product3">> -> Run("completed", 5, 3)
       [] c = <<"user3", "product3">> -> Run("completed", 5, 5)
       [] OTHER -> NoRun]

InitialStatus ==
  [p \in Products |-> IF p = "product4" THEN "draft" ELSE "published"]

InitCommon ==
  /\ pstatus = InitialStatus
  /\ notes = [c \in Cells |-> 0]
  /\ relations = {}
  /\ follows = {}
  /\ accounts = Users
  /\ follower_count = [u \in Users |-> 0]
  /\ following_count = [u \in Users |-> 0]
  /\ reqs = [r \in Requests |-> Idle]
  /\ cache = <<>>
  /\ now = 0
  /\ ret = NoCall

\* An empty run table
Init == InitCommon /\ runs = [c \in Cells |-> NoRun]

\* The run table of the service tests
InitFixture == InitCommon /\ runs = FixtureRuns

(***************************************************************************)
(* User follows (users/models.py)                                          *)
(***************************************************************************)
\* user.followers.count() and user.following.count() over the rows f
FollowersCount(f, u) == Cardinality({e \in f : e[1] = "user" /\ e[3] = u})
FollowingCount(f, u) == Cardinality({e \in f : e[1] = "user" /\ e[2] = u})

Edge(u, target) == <<"user", u, target>>

\* UserFollow.save() and UserFollow.delete() recompute, from the rows f, the
\* follower_count of the followed user and the following_count of the follower
Recount(counts, f, u, target) ==
  [follower_count |-> [counts.follower_count EXCEPT ![target] = FollowersCount(f, target)],
   following_count |-> [counts.following_count EXCEPT ![u] = FollowingCount(f, u)]]

\* UserFollowViewSet.follow without the test that the target is the requester
follow_NoSelfTest(u, target, f, counts) ==
  IF Edge(u, target) \in f
    THEN [status |-> 200, is_following |-> TRUE,
          follower_count |-> counts.follower_count[target],
          follows |-> f, counts |-> counts]
  ELSE LET g == f \cup {Edge(u, target)}
           n == Recount(counts, g, u, target)
       IN [status |-> 201, is_following |-> TRUE,
           follower_count |-> n.follower_count[target],
           follows |-> g, counts |-> n]

\* UserFollowViewSet.follow for the authenticated user u and the existing user
\* target: the response and the rows and counts it leaves.  On creation
\* user_to_follow is the instance UserFollow.save() recounts, so the response
\* carries the new count.
follow(u, target, f, counts) ==
  IF target = u
    THEN [status |-> 400, is_following |-> FALSE, follower_count |-> None,
          follows |-> f, counts |-> counts]
  ELSE IF Edge(u, target) \in f
    THEN [status |-> 200, is_following |-> TRUE,
          follower_count |-> counts.follower_count[target],
          follows |-> f, counts |-> counts]
  ELSE LET g == f \cup {Edge(u, target)}
           n == Recount(counts, g, u, target)
       IN [status |-> 201, is_following |-> TRUE,
           follower_count |-> n.follower_count[target],
           follows |-> g, counts |-> n]

\* UserFollowViewSet.unfollow.  follow.delete() recounts on the User instances
\* it loads itself; the response reads follower_count from user_to_unfollow,
\* the instance get_object() loaded before the row was deleted.
unfollow(u, target, f, counts) ==
  IF Edge(u, target) \notin f
    THEN [status |-> 404, is_following |-> FALSE, follower_count |-> None,
          follows |-> f, counts |-> counts]
  ELSE LET g == f \ {Edge(u, target)}
       IN [status |-> 200, is_following |-> FALSE,
           follower_count |-> counts.follower_count[target],
           follows |-> g, counts |-> Recount(counts, g, u, target)]

(***************************************************************************)
(* Writes to the data store                                                *)
(***************************************************************************)
\* AdventureRun.objects.create(user=u, product=p, ...): one row per (user, product)
CreateRun(u, p, st, rating, pc) ==
  /\ ~HasRun(u, p)
  /\ Cardinality(RunCells) < MaxRuns
  /\ runs' = [runs EXCEPT ![<<u, p>>] =
                [status |-> st, rating |-> rating, player_count |-> pc,
                 created_at |-> now, updated_at |-> now]]
  /\ ret' = NoCall
  /\ UNCHANGED <<pstatus, notes, relations, follows, userVars, cache, now, reqs>>

\* AdventureRunAdmin change: the rating of a Run is rewritten; auto_now sets
\* updated_at
RateRun(u, p, rating) ==
  /\ HasRun(u, p)
  /\ runs' = [runs EXCEPT ![<<u, p>>] = [@ EXCEPT !.rating = rating,
                                                  !.updated_at = now]]
  /\ ret' = NoCall
  /\ UNCHANGED <<pstatus, notes, relations, follows, userVars, cache, now, reqs>>

\* ProductRelation.objects.create(...): one row per (from, to, relation_type)
AddRelation(from, to, relation_type) ==
  /\ <<from, to, relation_type>> \notin relations
  /\ Cardinality(relations) < MaxRelations
  /\ relations' = relations \cup {<<from, to, relation_type>>}
  /\ ret' = NoCall
  /\ UNCHANGED <<pstatus, runs, notes, follows, userVars, cache, now, reqs>>

\* AdventureRunAdmin delete: the Run goes, and its notes with it
DeleteRun(u, p) ==
  /\ HasRun(u, p)
  /\ runs' = [runs EXCEPT ![<<u, p>>] = NoRun]
  /\ notes' = [notes EXCEPT ![<<u, p>>] = 0]
  /\ ret' = NoCall
  /\ UNCHANGED <<pstatus, relations, follows, userVars, cache, now, reqs>>

\* CommunityNote.objects.create(adventure_run=...)
AddNote(u, p) ==
  /\ HasRun(u, p)
  /\ notes[<<u, p>>] < MaxNotes
  /\ notes' = [notes EXCEPT ![<<u, p>>] = @ + 1]
  /\ ret' = NoCall
  /\ UNCHANGED <<pstatus, runs, relations, follows, userVars, cache, now, reqs>>

\* ProductViewSet update: the status of a product is rewritten
SetStatus(p, st) ==
  /\ pstatus[p] /= st
  /\ pstatus' = [pstatus EXCEPT ![p] = st]
  /\ ret' = NoCall
  /\ UNCHANGED <<runs, notes, relations, follows, userVars, cache, now, reqs>>

\* UserFollow / PublisherFollow / AuthorFollow create
Follow(kind, u, target) ==
  /\ <<kind, u, target>> \notin follows
  /\ kind = "user" => u /= target /\ u \in accounts /\ target \in accounts
  /\ follows' = follows \cup {<<kind, u, target>>}
  /\ IF kind = "user"
       THEN /\ follower_count' =
                 [follower_count EXCEPT
                    ![target] = FollowersCount(follows \cup {<<kind, u, target>>}, target)]
            /\ following_count' =
                 [following_count EXCEPT
                    ![u] = FollowingCount(follows \cup {<<kind, u, target>>}, u)]
       ELSE UNCHANGED <<follower_count, following_count>>
  /\ ret' = NoCall
  /\ UNCHANGED <<pstatus, runs, notes, relations, accounts, cache, now, reqs>>

\* POST /users/{target}/follow/ by the authenticated user u
FollowRequest(u, target) ==
  LET r == follow(u, target, follows,
                  [follower_count |-> follower_count,
                   following_count |-> following_count])
  IN
  /\ u \in accounts /\ target \in accounts
  /\ follows' = r.follows
  /\ follower_count' = r.counts.follower_count
  /\ following_count' = r.counts.following_count
  /\ ret' = [op |-> "POST follow", user |-> u, target |-> target,
             status |-> r.status, is_following |-> r.is_following,
             follower_count |-> r.follower_count]
  /\ UNCHANGED <<pstatus, runs, notes, relations, accounts, cache, now, reqs>>

\* DELETE /users/{target}/unfollow/ by the authenticated user u
UnfollowRequest(u, target) ==
  LET r == unfollow(u, target, follows,
                    [follower_count |-> follower_count,
                     following_count |-> following_count])
  IN
  /\ u \in accounts /\ target \in accounts
  /\ follows' = r.follows
  /\ follower_count' = r.counts.follower_count
  /\ following_count' = r.counts.following_count
  /\ ret' = [op |-> "DELETE unfollow", user |-> u, target |-> target,
             status |-> r.status, is_following |-> r.is_following,
             follower_count |-> r.follower_count]
  /\ UNCHANGED <<pstatus, runs, notes, relations, accounts, cache, now, reqs>>

\* UserAdmin delete: the User row goes, and by on_delete=CASCADE its follow
\* rows in both directions, its other follows, its Runs and their notes.  The
\* collector deletes the rows in bulk; UserFollow.delete() is not called.
DeleteUser(u) ==
  /\ u \in accounts
  /\ accounts' = accounts \ {u}
  /\ follows' = {e \in follows : e[2] /= u /\ ~(e[1] = "user" /\ e[3] = u)}
  /\ runs' = [c \in Cells |-> IF c[1] = u THEN NoRun ELSE runs[c]]
  /\ notes' = [c \in Cells |-> IF c[1] = u THEN 0 ELSE notes[c]]
  /\ ret' = NoCall
  /\ UNCHANGED <<pstatus, relations, follower_count, following_count, cache, now, reqs>>

\* UserFollow(follower=u, followed=target).save(), statement by statement:
\* full_clean() and the INSERT
SaveBegin(r, u, target) ==
  /\ reqs[r] = Idle
  /\ u \in accounts /\ target \in accounts
  /\ u /= target /\ Edge(u, target) \notin follows
  /\ follows' = follows \cup {Edge(u, target)}
  /\ reqs' = [reqs EXCEPT ![r] =
                [pc |-> "count_followers", op |-> "save", user |-> u,
                 target |-> target, n |-> 0]]
  /\ UNCHANGED <<pstatus, runs, notes, relations, userVars, cache, now, ret>>

\* UserFollow.delete(): the DELETE of the row
DeleteBegin(r, u, target) ==
  /\ reqs[r] = Idle
  /\ Edge(u, target) \in follows
  /\ follows' = follows \ {Edge(u, target)}
  /\ reqs' = [reqs EXCEPT ![r] =
                [pc |-> "count_followers", op |-> "delete", user |-> u,
                 target |-> target, n |-> 0]]
  /\ UNCHANGED <<pstatus, runs, notes, relations, userVars, cache, now, ret>>

\* followed.follower_count = followed.followers.count()
CountFollowers(r) ==
  LET q == reqs[r] IN
  /\ q.pc = "count_followers"
  /\ reqs' = [reqs EXCEPT ![r] =
                [q EXCEPT !.n = FollowersCount(follows, q.target),
                          !.pc = "save_followed"]]
  /\ UNCHANGED <<dataVars, cache, now, ret>>

\* followed.save(update_fields=["follower_count"])
SaveFollowed(r) ==
  LET q == reqs[r] IN
  /\ q.pc = "save_followed"
  /\ follower_count' = [follower_count EXCEPT ![q.target] = q.n]
  /\ reqs' = [reqs EXCEPT ![r] = [q EXCEPT !.pc = "count_following"]]
  /\ UNCHANGED <<pstatus, runs, notes, relations, follows, accounts,
                 following_count, cache, now, ret>>

\* follower.following_count = follower.following.count()
CountFollowing(r) ==
  LET q == reqs[r] IN
  /\ q.pc = "count_following"
  /\ reqs' = [reqs EXCEPT ![r] =
                [q EXCEPT !.n = FollowingCount(follows, q.user),
                          !.pc = "save_follower"]]
  /\ UNCHANGED <<dataVars, cache, now, ret>>

\* follower.save(update_fields=["following_count"]); save() or delete() returns
SaveFollower(r) ==
  LET q == reqs[r] IN
  /\ q.pc = "save_follower"
  /\ following_count' = [following_count EXCEPT ![q.user] = q.n]
  /\ reqs' = [reqs EXCEPT ![r] = Idle]
  /\ ret' = [op |-> q.op, user |-> q.user, target |-> q.target, request |-> r]
  /\ UNCHANGED <<pstatus, runs, notes, relations, follows, accounts,
                 follower_count, cache, now>>

\* Time passes to a later instant
Tick(t) ==
  /\ t > now
  /\ now' = t
  /\ ret' = NoCall
  /\ UNCHANGED <<dataVars, reqs, cache>>

(***************************************************************************)
(* Engine calls                                                            *)
(***************************************************************************)
SimilarUsersCall(u, min_overlap) ==
  LET r == get_similar_users(u, min_overlap, cache) IN
  /\ cache' = r.cache
  /\ ret' = [op |-> "similar_users", user |-> u, arg |-> min_overlap,
             hit |-> r.hit, val |-> r.val]
  /\ UNCHANGED <<dataVars, reqs, now>>

CollaborativeCall(u, limit) ==
  \E r \in get_collaborative_recommendations(u, limit, cache) :
    /\ cache' = r.cache
    /\ ret' = [op |-> "collaborative", user |-> u, arg |-> limit,
               hit |-> r.hit, simHit |-> r.simHit, val |-> r.val]
    /\ UNCHANGED <<dataVars, reqs, now>>

\* get_user_profile that also deletes the user's unrated Runs
ProfileCall_Prune(u) ==
  LET r == get_user_profile(u, cache) IN
    /\ cache' = r.cache
    /\ ret' = [op |-> "profile", user |-> u, hit |-> r.hit, val |-> r.val]
    /\ runs' = [c \in Cells |->
                  IF c[1] = u /\ runs[c] /= NoRun /\ runs[c].rating = None
                    THEN NoRun ELSE runs[c]]
    /\ UNCHANGED <<pstatus, notes, relations, follows, userVars, now, reqs>>

ProfileCall(u) ==
  LET r == get_user_profile(u, cache) IN
    /\ cache' = r.cache
    /\ ret' = [op |-> "profile", user |-> u, hit |-> r.hit, val |-> r.val]
    /\ UNCHANGED <<dataVars, reqs, now>>

ContentCall(u, limit) ==
  \E r \in get_content_recommendations(u, limit, cache) :
    /\ cache' = r.cache
    /\ ret' = [op |-> "content", user |-> u, arg |-> limit, hit |-> r.hit,
               profileHit |-> r.profileHit, val |-> r.val]
    /\ UNCHANGED <<dataVars, reqs, now>>

FollowUpsCall(u, limit) ==
  \E r \in get_follow_ups(u, limit, cache) :
    /\ cache' = r.cache
    /\ ret' = [op |-> "follow_ups", user |-> u, arg |-> limit,
               hit |-> r.hit, val |-> r.val]
    /\ UNCHANGED <<dataVars, reqs, now>>

TrendingCall(days, limit) ==
  \E r \in get_trending(days, limit, cache) :
    /\ cache' = r.cache
    /\ ret' = [op |-> "trending", user |-> NoUser, days |-> days, arg |-> limit,
               hit |-> r.hit, val |-> r.val]
    /\ UNCHANGED <<dataVars, reqs, now>>

TopRatedCall(game_system, product_type, limit) ==
  \E r \in get_top_rated(game_system, product_type, limit, cache) :
    /\ cache' = r.cache
    /\ ret' = [op |-> "top_rated", user |-> NoUser, game_system |-> game_system,
               product_type |-> product_type, arg |-> limit,
               hit |-> r.hit, val |-> r.val]
    /\ UNCHANGED <<dataVars, reqs, now>>

SimilarProductsCall(p, limit) ==
  \E r \in get_similar_products(p, limit, cache) :
    /\ cache' = r.cache
    /\ ret' = [op |-> "similar_products", user |-> NoUser, product |-> p,
               arg |-> limit, hit |-> r.hit, val |-> r.val]
    /\ UNCHANGED <<dataVars, reqs, now>>

FromFollowingCall(u, limit) ==
  \E r \in get_from_following(u, limit, cache) :
    /\ cache' = r.cache
    /\ ret' = [op |-> "from_following", user |-> u, arg |-> limit,
               hit |-> r.hit, val |-> r.val]
    /\ UNCHANGED <<dataVars, reqs, now>>

NewReleasesCall(u, days, limit) ==
  \E r \in get_new_releases(u, days, limit, cache) :
    /\ cache' = r.cache
    /\ ret' = [op |-> "new_releases", user |-> u, days |-> days, arg |-> limit,
               hit |-> r.hit, val |-> r.val]
    /\ UNCHANGED <<dataVars, reqs, now>>

SuggestedFollowsCall(u, limit) ==
  LET r == get_suggested_follows(u, limit) IN
  /\ ret' = [op |-> "suggested_follows", user |-> u, arg |-> limit,
             error |-> r.error, val |-> r.val]
  /\ UNCHANGED <<dataVars, reqs, cache, now>>

ForYouCall(u) ==
  \E r \in get_for_you(u, cache) :
    /\ cache' = r.cache
    /\ ret' = [op |-> "for_you", user |-> u, hit |-> r.hit, val |-> r.val]
    /\ UNCHANGED <<dataVars, reqs, now>>

ListCall(u) ==
  \E r \in list(u, cache) :
    /\ cache' = r.cache
    /\ ret' = [op |-> "list", user |-> u, status |-> 200, hit |-> r.hit,
               val |-> r.val]
    /\ UNCHANGED <<dataVars, reqs, now>>

\* A call in which a read fails
TrendingRaisesCall(days, limit) ==
  \E r \in get_trending_raises(days, limit, cache) :
    /\ cache' = r.cache
    /\ ret' = [op |-> "trending", user |-> NoUser, failed |-> r.at,
               keys |-> r.keys, raised |-> r.raised, val |-> r.val]
    /\ UNCHANGED <<dataVars, reqs, now>>

CollaborativeRaisesCall(u, limit) ==
  \E r \in get_collaborative_recommendations_raises(u, limit, cache) :
    /\ cache' = r.cache
    /\ ret' = [op |-> "collaborative", user |-> u, failed |-> r.at,
               keys |-> r.keys, raised |-> r.raised, val |-> r.val]
    /\ UNCHANGED <<dataVars, reqs, now>>

ContentRaisesCall(u, limit) ==
  \E r \in get_content_recommendations_raises(u, limit, cache) :
    /\ cache' = r.cache
    /\ ret' = [op |-> "content", user |-> u, failed |-> r.at,
               keys |-> r.keys, raised |-> r.raised, val |-> r.val]
    /\ UNCHANGED <<dataVars, reqs, now>>

ForYouRaisesCall(u) ==
  \E r \in get_for_you_raises(u, cache) :
    /\ cache' = r.cache
    /\ ret' = [op |-> "for_you", user |-> u, failed |-> r.at,
               keys |-> r.keys, raised |-> r.raised, val |-> r.val]
    /\ UNCHANGED <<dataVars, reqs, now>>

\* GET /recommendations/trending/?days=..&limit=..
TrendingRequest(days_param, limit_param) ==
  \E r \in trending(days_param, limit_param, cache) :
    /\ cache' = r.cache
    /\ ret' = [op |-> "GET trending", days_param |-> days_param,
               limit_param |-> limit_param, status |-> r.status,
               days |-> r.days, limit |-> r.limit, val |-> r.val]
    /\ UNCHANGED <<dataVars, reqs, now>>

(***************************************************************************)
(* Requests in progress.  get_trending and get_collaborative_recommendations *)
(* statement by statement: cache.get, the queries, cache.set.  Nothing is   *)
(* locked; the statements of two requests interleave freely.                *)
(***************************************************************************)
OwnKey(q) ==
  IF q.op = "trending" THEN Key("trending", "", "", 30, q.limit)
  ELSE Key("collaborative", q.user, "", q.limit, 0)

OwnTTL(q) == IF q.op = "trending" THEN TTL_TRENDING ELSE TTL_COLLABORATIVE

\* The lists the query of the operation can produce on the present data
Computable(q) ==
  IF q.op = "trending" THEN OrderByScoreDesc(TrendingRows(30), q.limit)
  ELSE OrderByScoreDesc(CollabRows(q.user, q.sim), q.limit)

\* A request enters get_trending(limit) or, for a user,
\* get_collaborative_recommendations(limit)
Begin(r, op, u, limit) ==
  /\ reqs[r] = Idle
  /\ op = "trending" <=> u = NoUser
  /\ reqs' = [reqs EXCEPT ![r] =
                [pc |-> "get", op |-> op, user |-> u, limit |-> limit,
                 sim |-> {}, hit |-> FALSE, val |-> <<>>]]
  /\ UNCHANGED <<dataVars, cache, now, ret>>

\* cache.get that waits while another request computes the same key
CacheGetStep_Coalesce(r) ==
  LET q == reqs[r] IN
  /\ q.pc = "get"
  /\ \A o \in Requests \ {r} :
       reqs[o] /= Idle /\ reqs[o].pc \in {"query", "set"} => OwnKey(reqs[o]) /= OwnKey(q)
  /\ reqs' = [reqs EXCEPT ![r] =
                IF CacheHit(cache, OwnKey(q))
                  THEN [q EXCEPT !.pc = "done", !.hit = TRUE,
                                 !.val = CacheValue(cache, OwnKey(q))]
                ELSE IF q.op = "trending" THEN [q EXCEPT !.pc = "query"]
                ELSE [q EXCEPT !.pc = "similar_get"]]
  /\ UNCHANGED <<dataVars, cache, now, ret>>

\* cached = cache.get(cache_key); if cached is not None: return cached
CacheGetStep(r) ==
  LET q == reqs[r] IN
  /\ q.pc = "get"
  /\ reqs' = [reqs EXCEPT ![r] =
                IF CacheHit(cache, OwnKey(q))
                  THEN [q EXCEPT !.pc = "done", !.hit = TRUE,
                                 !.val = CacheValue(cache, OwnKey(q))]
                ELSE IF q.op = "trending" THEN [q EXCEPT !.pc = "query"]
                ELSE [q EXCEPT !.pc = "similar_get"]]
  /\ UNCHANGED <<dataVars, cache, now, ret>>

\* get_similar_users(): its cache.get and, on a miss, the test of the user's
\* liked products; with no similar user the recommender returns []
SimilarGetStep(r) ==
  LET q == reqs[r]
      k == Key("similar_users", q.user, "", 2, 0)
  IN
  /\ q.pc = "similar_get"
  /\ reqs' = [reqs EXCEPT ![r] =
                IF CacheHit(cache, k)
                  THEN [q EXCEPT !.sim = CacheValue(cache, k) \cap Users,
                                 !.pc = IF CacheValue(cache, k) \cap Users = {}
                                          THEN "done" ELSE "query"]
                ELSE IF Cardinality(UserLiked(q.user)) < 2
                  THEN [q EXCEPT !.pc = "done"]
                ELSE [q EXCEPT !.pc = "similar_query"]]
  /\ UNCHANGED <<dataVars, cache, now, ret>>

\* list(similar_users)
SimilarQueryStep(r) ==
  LET q == reqs[r] IN
  /\ q.pc = "similar_query"
  /\ reqs' = [reqs EXCEPT ![r] =
                [q EXCEPT !.sim = SimilarUsersQuery(q.user, 2), !.pc = "similar_set"]]
  /\ UNCHANGED <<dataVars, cache, now, ret>>

\* cache.set(cache_key, list(similar_users), timeout=21600)
SimilarSetStep(r) ==
  LET q == reqs[r] IN
  /\ q.pc = "similar_set"
  /\ cache' = CacheSet(cache, Key("similar_users", q.user, "", 2, 0), q.sim,
                       TTL_SIMILAR_USERS)
  /\ reqs' = [reqs EXCEPT ![r] =
                [q EXCEPT !.pc = IF q.sim = {} THEN "done" ELSE "query"]]
  /\ UNCHANGED <<dataVars, now, ret>>

\* The queries of the operation, the sort and the truncation
QueryStep(r) ==
  LET q == reqs[r] IN
  /\ q.pc = "query"
  /\ \E scored \in Computable(q) :
       reqs' = [reqs EXCEPT ![r] = [q EXCEPT !.val = scored, !.pc = "set"]]
  /\ UNCHANGED <<dataVars, cache, now, ret>>

\* cache.set(cache_key, scored, timeout=3600)
CacheSetStep(r) ==
  LET q == reqs[r] IN
  /\ q.pc = "set"
  /\ cache' = CacheSet(cache, OwnKey(q), q.val, OwnTTL(q))
  /\ reqs' = [reqs EXCEPT ![r] = [q EXCEPT !.pc = "done"]]
  /\ UNCHANGED <<dataVars, now, ret>>

\* return scored
Return(r) ==
  LET q == reqs[r] IN
  /\ q.pc = "done"
  /\ reqs' = [reqs EXCEPT ![r] = Idle]
  /\ ret' = [op |-> q.op, user |-> q.user, arg |-> q.limit, hit |-> q.hit,
             val |-> q.val, request |-> r]
  /\ UNCHANGED <<dataVars, cache, now>>

\* The next statement of request r
Step(r) ==
  \/ CacheGetStep(r) \/ SimilarGetStep(r) \/ SimilarQueryStep(r)
  \/ SimilarSetStep(r) \/ QueryStep(r) \/ CacheSetStep(r) \/ Return(r)

\* service._similarity_score(profile, product) on its own
SimilarityCall(profile, product) ==
  /\ ret' = [op |-> "similarity", profile |-> profile, product |-> product,
             val |-> _similarity_score(profile, product)]
  /\ UNCHANGED <<dataVars, reqs, cache, now>>

\* service._calculate_range_overlap(range1, range2) on its own
RangeOverlapCall(range1, range2) ==
  /\ ret' = [op |-> "range_overlap", range1 |-> range1, range2 |-> range2,
             val |-> _calculate_range_overlap(range1, range2)]
  /\ UNCHANGED <<dataVars, reqs, cache, now>>

(***************************************************************************)
(* Properties                                                              *)
(***************************************************************************)
IsList(op) == ret.op = op
Computed(op) == ret.op = op /\ ~ret.hit

\* The rating of v on p when it is 4 or 5, else 0
Liked(v, p) == runs[<<v, p>>] /= NoRun /\ runs[<<v, p>>].rating >= 4
LikedRating(v, p) == IF Liked(v, p) THEN runs[<<v, p>>].rating ELSE 0
SharedLiked(u, v) == {p \in Products : Liked(u, p) /\ Liked(v, p)}

C5_SimilarUsersExact ==
  Computed("similar_users") =>
    ret.val =
      IF ret.user = NoUser
           \/ Cardinality({p \in Products : Liked(ret.user, p)}) < ret.arg
        THEN {}
        ELSE {v \in Users \ {ret.user} :
                Cardinality(SharedLiked(ret.user, v)) >= ret.arg}

\* C5 witness: a computed answer that holds one user and leaves out another who
\* shares some, but fewer than k, liked products
C5_Witness ==
  /\ Computed("similar_users") /\ ret.val /= {}
  /\ \E v \in Users \ ({ret.user} \cup ret.val) : SharedLiked(ret.user, v) /= {}

\* The similar users the last collaborative call worked from
C6_Similar ==
  IF ret.simHit
    THEN cache[Key("similar_users", ret.user, "", 2, 0)].value
    ELSE IF Cardinality({p \in Products : Liked(ret.user, p)}) < 2 THEN {}
    ELSE {v \in Users \ {ret.user} : Cardinality(SharedLiked(ret.user, v)) >= 2}
C6_Candidates ==
  {p \in Products : runs[<<ret.user, p>>] = NoRun
                     /\ \E v \in C6_Similar : Liked(v, p)}
C6_Sum(p) ==
  LET f[S \in SUBSET C6_Similar] ==
        IF S = {} THEN 0
        ELSE LET v == CHOOSE x \in S : TRUE IN LikedRating(v, p) + f[S \ {v}]
  IN f[C6_Similar]

RowType(i) == ret.val[i].reason[2]
TableOf ==
  [t \in {"sequel", "expansion", "prequel", "conversion", "related"} |->
     CASE t = "sequel" -> 10 [] t = "expansion" -> 9 [] t = "prequel" -> 8
       [] t = "conversion" -> 7 [] t = "related" -> 6]
TableScore(t) == TableOf[t]

\* C7 as claimed: every product get_follow_ups returns is the target of a
\* relation from a product U completed, and U has no Run on it at the time of
\* the call.
C7_FollowUpsEver ==
  IsList("follow_ups") =>
    \A i \in DOMAIN ret.val :
      /\ \E r \in relations :
            /\ r[2] = ret.val[i].product
            /\ runs[<<ret.user, r[1]>>].status = "completed"
      /\ runs[<<ret.user, ret.val[i].product>>] = NoRun

\* C7 amended: the same, for the lists get_follow_ups computes on a cache miss.
C7_FollowUpsOnMiss ==
  Computed("follow_ups") =>
    \A i \in DOMAIN ret.val :
      /\ \E r \in relations :
            /\ r[2] = ret.val[i].product
            /\ runs[<<ret.user, r[1]>>].status = "completed"
      /\ runs[<<ret.user, ret.val[i].product>>] = NoRun

\* C7 witness: a computed, non-empty list that leaves out the target of a
\* relation from a product U only plans or is running
C7_Witness ==
  /\ Computed("follow_ups") /\ ret.val /= <<>>
  /\ \E r \in relations :
        /\ runs[<<ret.user, r[1]>>].status \in {"want_to_run", "running"}
        /\ runs[<<ret.user, r[2]>>] = NoRun
        /\ \A i \in DOMAIN ret.val : ret.val[i].product /= r[2]

\* C8 as claimed: every row of a follow-up list carries the score the table
\* sequel=1.0, expansion=0.9, prequel=0.8, conversion=0.7, related=0.6 gives its
\* relation type, so every score is one of these five, and the list is in
\* non-increasing score order.
C8_TableScores ==
  IsList("follow_ups") =>
    /\ \A i \in DOMAIN ret.val :
          /\ RowType(i) \in {"sequel", "expansion", "prequel", "conversion", "related"}
          /\ ret.val[i].score = TableScore(RowType(i))
    /\ \A i, j \in DOMAIN ret.val : i < j => ret.val[i].score >= ret.val[j].score

\* C8 amended: a row reached through a relation of a type in the table carries
\* the table's score and a row reached through any other type (compilation)
\* carries 0.5; the list is in non-increasing score order, and a computed list
\* holds the min(limit, number of eligible relations) best rows.
C8_TableScoresOrDefault ==
  IsList("follow_ups") =>
    /\ \A i \in DOMAIN ret.val :
          ret.val[i].score =
            IF RowType(i) \in {"sequel", "expansion", "prequel", "conversion", "related"}
              THEN TableScore(RowType(i)) ELSE 5
    /\ \A i, j \in DOMAIN ret.val : i < j => ret.val[i].score >= ret.val[j].score
    /\ (~ret.hit /\ ret.user \in Users) =>
         LET eligible == {r \in relations :
                            /\ runs[<<ret.user, r[1]>>].status = "completed"
                            /\ runs[<<ret.user, r[2]>>] = NoRun}
         IN /\ Len(ret.val) = Min(ret.arg, Cardinality(eligible))
            /\ \A r \in eligible :
                  (\A i \in DOMAIN ret.val :
                      ret.val[i].product /= r[2] \/ RowType(i) /= r[3])
                   => \A i \in DOMAIN ret.val :
                        ret.val[i].score >=
                          (IF r[3] \in DOMAIN TableOf THEN TableOf[r[3]] ELSE 5)

\* C8 witness: a computed list whose rows come from two relation types with
\* different scores
C8_Witness ==
  /\ Computed("follow_ups") /\ Len(ret.val) = 2
  /\ ret.val[1].score > ret.val[2].score

\* C1: every product a recommender returns has status published when the list
\* is computed.
C1_OnlyPublished ==
  (ret.op \in {"collaborative", "follow_ups"} /\ ~ret.hit) =>
    \A i \in DOMAIN ret.val : pstatus[ret.val[i].product] = "published"

\* C10 as claimed: for an authenticated user with zero Runs, get_user_profile
\* returns a profile with empty tags, themes, genres, preferred systems and
\* publishers and with level range and typical party size absent, and
\* get_content_recommendations and get_collaborative_recommendations return the
\* empty list, whatever other users' Runs exist.
ColdStart ==
  /\ ret.op \in {"profile", "content", "collaborative"}
  /\ ret.user \in Users
  /\ \A p \in Products : runs[<<ret.user, p>>] = NoRun

ColdStartResult ==
  IF ret.op = "profile"
    THEN /\ DOMAIN ret.val.tags = {} /\ DOMAIN ret.val.themes = {}
         /\ DOMAIN ret.val.genres = {}
         /\ ret.val.preferred_systems = {} /\ ret.val.preferred_publishers = {}
         /\ ret.val.level_range = NoRange /\ ret.val.typical_party_size = None
    ELSE ret.val = <<>>

C10_ColdStartEver == ColdStart => ColdStartResult

\* C10 amended: the same, when the call read nothing from the cache: neither
\* its own entry nor the profile or similar-users entry it builds on.
C10_ColdStartOnMiss ==
  (/\ ColdStart /\ ~ret.hit
   /\ ret.op = "content" => ~ret.profileHit
   /\ ret.op = "collaborative" => ~ret.simHit) => ColdStartResult

\* C10 witness: content recommendations computed for a user without Runs while
\* published products without a Run of that user and other users' Runs exist
C10_Witness ==
  /\ Computed("content") /\ ~ret.profileHit /\ ret.user = "newuser"
  /\ \A p \in Products : runs[<<"newuser", p>>] = NoRun
  /\ \E p \in Products : pstatus[p] = "published"
  /\ \E u \in Users \ {"newuser"}, p \in Products : runs[<<u, p>>] /= NoRun

\* The Runs on p created within the last 30 days
RecentRuns(p) ==
  {u \in Users : runs[<<u, p>>] /= NoRun
                  /\ runs[<<u, p>>].created_at >= now - 30 * SecondsPerDay}
RECURSIVE NotesOf(_, _)
NotesOf(S, p) ==
  IF S = {} THEN 0
  ELSE LET u == CHOOSE x \in S : TRUE IN notes[<<u, p>>] + NotesOf(S \ {u}, p)

\* Twice the trending score of p: every planned Run counts 1.0, every completed
\* Run 2.0 and every note 0.5
TwiceTrendingScore(p) ==
  2 * Cardinality({u \in RecentRuns(p) : runs[<<u, p>>].status = "want_to_run"})
  + 4 * Cardinality({u \in RecentRuns(p) : runs[<<u, p>>].status = "completed"})
  + NotesOf(RecentRuns(p), p)

TrendingExists ==
  \E p \in Products : pstatus[p] = "published" /\ TwiceTrendingScore(p) >= 2

PersonalSectionsEmpty ==
  /\ ret.val.collaborative = <<>> /\ ret.val.content_based = <<>>
  /\ ret.val.from_following = <<>> /\ ret.val.follow_ups = <<>>
  /\ ret.val.new_releases = <<>>

\* C3 as claimed: get_for_you without a user returns empty personal sections and
\* a trending section that is non-empty whenever a published product has a
\* trending score >= 1 over the last 30 days.
C3_AnonymousForYouEver ==
  (ret.op = "for_you" /\ ret.user = NoUser) =>
    /\ PersonalSectionsEmpty
    /\ TrendingExists => ret.val.trending /= <<>>

\* C3 amended: the personal sections are always empty, every row of the
\* trending section is a trending row, and the trending section is non-empty
\* whenever such a product exists and get_trending(limit=10) computed its list
\* on a cache miss.
C3_AnonymousForYouOnMiss ==
  (ret.op = "for_you" /\ ret.user = NoUser) =>
    /\ PersonalSectionsEmpty
    /\ \A i \in DOMAIN ret.val.trending : ret.val.trending[i].reason = "trending"
    /\ (~ret.hit /\ TrendingExists) => ret.val.trending /= <<>>
    /\ ~ret.hit =>
         \A i \in DOMAIN ret.val.trending :
            /\ pstatus[ret.val.trending[i].product] = "published"
            /\ ret.val.trending[i].score >= 2
            /\ ret.val.trending[i].score
                 >= TwiceTrendingScore(ret.val.trending[i].product)

\* C3 witness: an anonymous home feed computed on a cache miss while a
\* published product is trending
C3_Witness ==
  /\ ret.op = "for_you" /\ ret.user = NoUser /\ ~ret.hit
  /\ TrendingExists /\ ret.val.trending /= <<>>

\* C4: the home-feed endpoint called without authentication responds 200 with
\* empty personal sections and a trending section that is non-empty whenever
\* trending products exist.
C4_AnonymousListTrending ==
  (ret.op = "list" /\ ret.user = NoUser) =>
    /\ ret.status = 200
    /\ PersonalSectionsEmpty
    /\ TrendingExists => ret.val.trending /= <<>>

SharesSignal(profile, product) ==
  \/ DOMAIN profile.tags \cap product.tags /= {}
  \/ DOMAIN profile.themes \cap product.themes /= {}
  \/ DOMAIN profile.genres \cap product.genres /= {}
  \/ product.game_system \in profile.preferred_systems
  \/ product.publisher \in profile.preferred_publishers
  \/ /\ profile.level_range /= NoRange
     /\ product.level_range_min /= None /\ product.level_range_max /= None
     /\ (IF profile.level_range[1] > product.level_range_min
          THEN profile.level_range[1] ELSE product.level_range_min)
        <= (IF profile.level_range[2] < product.level_range_max
            THEN profile.level_range[2] ELSE product.level_range_max)

\* C11: _similarity_score(profile, product) is >= 0; it is 0 when profile and
\* product share no tag, theme or genre, the product's system and publisher are
\* not preferred and the level ranges are absent or disjoint; and it is > 0
\* whenever one of these six signals is shared.
C11_SimilarityScoreSign ==
  ret.op = "similarity" =>
    /\ ret.val >= 0
    /\ ~SharesSignal(ret.profile, ret.product) => ret.val = 0
    /\ SharesSignal(ret.profile, ret.product) => ret.val > 0

\* C12: _calculate_range_overlap([a,b],[c,d]) with a <= b and c <= d is
\* max(0, min(b,d) - max(a,c) + 1) / (max(b,d) - min(a,c) + 1): 3/5 for [1,5] and
\* [2,4], 2/8 for [1,5] and [4,8], 0 for [1,5] and [6,10]; it is symmetric, lies
\* between 0 and 1, and is 1 exactly when the two ranges are equal.
C12_RangeOverlap ==
  ret.op = "range_overlap" =>
    LET a == ret.range1[1]
        b == ret.range1[2]
        c == ret.range2[1]
        d == ret.range2[2]
        lo == IF a > c THEN a ELSE c
        hi == IF b < d THEN b ELSE d
        num == IF hi - lo + 1 > 0 THEN hi - lo + 1 ELSE 0
        den == (IF b > d THEN b ELSE d) - (IF a < c THEN a ELSE c) + 1
    IN /\ ret.val * den = num * ScoreScale
       /\ ret.val = _calculate_range_overlap(ret.range2, ret.range1)
       /\ 0 <= ret.val /\ ret.val <= ScoreScale
       /\ ret.val = ScoreScale <=> ret.range1 = ret.range2
       /\ (ret.range1 = <<1, 5>> /\ ret.range2 = <<2, 4>>) => 5 * ret.val = 3 * ScoreScale
       /\ (ret.range1 = <<1, 5>> /\ ret.range2 = <<4, 8>>) => 8 * ret.val = 2 * ScoreScale
       /\ (ret.range1 = <<1, 5>> /\ ret.range2 = <<6, 10>>) => ret.val = 0

\* C12 witness: the partial overlap of [1,5] and [4,8] has been computed
C12_Witness ==
  /\ ret.op = "range_overlap"
  /\ ret.range1 = <<1, 5>> /\ ret.range2 = <<4, 8>> /\ ret.val > 0

\* The count a Counter holds for a key (0 for a key it does not hold)
Count(counter, t) == IF t \in DOMAIN counter THEN counter[t] ELSE 0

\* U's Runs rated 4 or more, those of them whose product has both level
\* bounds, and those that carry a player count
HighRated(u) == {p \in Products : Liked(u, p)}
Bounded(u) ==
  {p \in HighRated(u) :
     Catalog[p].level_range_min /= None /\ Catalog[p].level_range_max /= None}
WithPartySize(u) == {p \in HighRated(u) : runs[<<u, p>>].player_count /= None}

RECURSIVE PlayerCountSum(_, _)
PlayerCountSum(u, S) ==
  IF S = {} THEN 0
  ELSE LET p == CHOOSE x \in S : TRUE
       IN runs[<<u, p>>].player_count + PlayerCountSum(u, S \ {p})

\* v is an integer nearest to s / n
NearestInteger(v, s, n) ==
  LET d == IF n * v >= s THEN n * v - s ELSE s - n * v IN 2 * d <= n

\* The feature counts, systems, publishers and party size of a computed profile
\* fold exactly the Runs rated 4 or more
ProfileFoldsHighRated(u, profile) ==
  /\ \A field \in {"tags", "themes", "genres"} :
       \A t \in UNION {Catalog[p][field] : p \in Products} :
         Count(profile[field], t)
           = Cardinality({p \in HighRated(u) : t \in Catalog[p][field]})
  /\ \A field \in {"tags", "themes", "genres"} :
       DOMAIN profile[field] \subseteq UNION {Catalog[p][field] : p \in Products}
  /\ profile.preferred_systems = {Catalog[p].game_system : p \in HighRated(u)}
  /\ profile.preferred_publishers = {Catalog[p].publisher : p \in HighRated(u)}
  /\ IF WithPartySize(u) = {} THEN profile.typical_party_size = None
     ELSE NearestInteger(profile.typical_party_size,
                         PlayerCountSum(u, WithPartySize(u)),
                         Cardinality(WithPartySize(u)))

\* What holds of the fold: everything but the level range, and the level range
\* over the products whose bounds are both non-zero
C13_FoldButZeroLevel ==
  (ret.op = "profile" /\ ret.user \in Users /\ ~ret.hit) =>
    /\ ProfileFoldsHighRated(ret.user, ret.val)
    /\ LET B == {p \in Bounded(ret.user) :
                   Catalog[p].level_range_min /= 0 /\ Catalog[p].level_range_max /= 0}
       IN ret.val.level_range =
            IF B = {} THEN NoRange
            ELSE <<SetMin({Catalog[p].level_range_min : p \in B}),
                   SetMax({Catalog[p].level_range_max : p \in B})>>

\* C13 as claimed: on a cache miss, get_user_profile for U folds exactly U's
\* Runs rated 4 or more: every tag, theme and genre count is the number of those
\* Runs whose product carries it, the preferred systems and publishers are those
\* products' systems and publishers, level_range is (minimum of the level
\* minimums, maximum of the level maximums) over every such product that has
\* both bounds, and typical_party_size is the mean player count rounded to a
\* nearest integer, absent when no such Run carries one.
C13_ProfileFold ==
  (ret.op = "profile" /\ ret.user \in Users /\ ~ret.hit) =>
    /\ ProfileFoldsHighRated(ret.user, ret.val)
    /\ ret.val.level_range =
         IF Bounded(ret.user) = {} THEN NoRange
         ELSE <<SetMin({Catalog[p].level_range_min : p \in Bounded(ret.user)}),
                SetMax({Catalog[p].level_range_max : p \in Bounded(ret.user)})>>

\* The operations of the engine, by the name the call records
EngineOps ==
  {"profile", "similar_users", "collaborative", "content", "similar_products",
   "from_following", "new_releases", "suggested_follows", "follow_ups",
   "trending", "top_rated", "for_you"}

\* C14: no engine operation (get_user_profile, get_similar_users, every
\* recommender, get_suggested_follows, get_for_you) creates, updates or deletes
\* a Product, Run, Follow edge, ProductRelation or Note: a step that is an
\* engine call leaves the source data and the clock as they were, and changes
\* at most the cache.
C14_EngineReadsOnly ==
  [][ret'.op \in EngineOps => UNCHANGED <<dataVars, now>>]_vars

\* The home feed has been computed for a user over a store that holds Runs,
\* follow edges and relations, and the cache has been written
C14_Witness ==
  /\ ret.op = "for_you" /\ ret.user = "user1"
  /\ DOMAIN cache /= {}
  /\ follows /= {} /\ relations /= {}
  /\ \E p \in Products : HasRun("user1", p) /\ runs[<<"user1", p>>].rating = None

\* The entry under k is the same before and after the step
SameEntry(k) ==
  /\ k \in DOMAIN cache' <=> k \in DOMAIN cache
  /\ k \in DOMAIN cache => cache'[k] = cache[k]

\* C15: a data-store or cache read that fails during an engine operation
\* reaches the caller as the exception: the operation returns no list, partial
\* or empty, and writes nothing to the cache under its own key, and a failure
\* in one recommender of get_for_you fails the whole bundled call.
C15_ReadFailurePropagates ==
  [][("failed" \in DOMAIN ret') =>
       /\ ret'.raised /\ ret'.val = <<>>
       /\ \A k \in ret'.keys : SameEntry(k)
       /\ UNCHANGED <<dataVars, now>>]_vars

\* get_for_you has failed in a store read of a later recommender, after the
\* recommenders before it wrote their own entries
C15_Witness ==
  /\ "failed" \in DOMAIN ret /\ ret.op = "for_you" /\ ret.user = "user1"
  /\ ret.failed = "store"
  /\ \E k \in ret.keys : k[1] = "trending"
  /\ Key("collaborative", "user1", "", 5, 0) \in DOMAIN cache

\* The trending endpoint answered 200 with at most min(limit, 50) items
\* computed for min(limit, 50) and min(days, 365)
ClampedResponse ==
  /\ ret.status = 200
  /\ ret.limit = Min(int(ret.limit_param, 20).n, CEILING_LIMIT)
  /\ ret.days = Min(int(ret.days_param, 30).n, CEILING_DAYS)
  /\ Len(ret.val) <= CEILING_LIMIT
  /\ ret.limit_param.kind = "int" => Len(ret.val) <= Max(ret.limit_param.n, 0)

\* What holds of the clamp: requests whose limit and days are absent or
\* integers, the limit not negative, are answered so
C16_ClampWellFormed ==
  (/\ ret.op = "GET trending"
   /\ ret.limit_param.kind /= "text" /\ ret.days_param.kind /= "text"
   /\ ret.limit_param.n >= 0) => ClampedResponse

\* C16 as claimed: the endpoint passes min(requested limit, ceiling) and
\* min(requested days, 365) to the engine, no response holds more items than
\* the requested limit or the ceiling, and a limit or days value that is over
\* the ceiling, zero, negative or malformed is clamped and never produces an
\* error response.
C16_ClampNeverErrors ==
  ret.op = "GET trending" => ClampedResponse

\* Two requests for the same key that both missed the cache, both computed and
\* both reached their return
BothRecomputed(r1, r2) ==
  /\ r1 /= r2
  /\ reqs[r1] /= Idle /\ reqs[r2] /= Idle
  /\ reqs[r1].pc = "done" /\ reqs[r2].pc = "done"
  /\ ~reqs[r1].hit /\ ~reqs[r2].hit
  /\ OwnKey(reqs[r1]) = OwnKey(reqs[r2])
  /\ OwnKey(reqs[r1]) \in DOMAIN cache

\* No request in progress is blocked: its next statement can run
NoRequestBlocked == \A r \in Requests : reqs[r] /= Idle => ENABLED Step(r)

UserEdges == {e \in follows : e[1] = "user"}

\* What a follow request answers and does to the edges
FollowResponds ==
  ret'.op = "POST follow" =>
    LET e == Edge(ret'.user, ret'.target) IN
    /\ ret'.user = ret'.target =>
         ret'.status = 400 /\ follows' = follows
    /\ (ret'.user /= ret'.target /\ e \notin follows) =>
         ret'.status = 201 /\ follows' = follows \cup {e}
    /\ (ret'.user /= ret'.target /\ e \in follows) =>
         ret'.status = 200 /\ follows' = follows

\* C18: after any sequence of follow and unfollow requests no user-to-user
\* edge has follower equal to followed, and each (follower, followed) pair has
\* at most one edge (a user follows as many users as it has edges): a request
\* to follow oneself is answered 400 and creates no edge, the first follow of a
\* user is answered 201 and creates one edge, a repeated follow is answered 200
\* and leaves that one edge.
C18_FollowEdges ==
  /\ [](\A e \in UserEdges : e[2] /= e[3])
  /\ [](\A u \in Users :
          FollowingCount(follows, u) = Cardinality({e[3] : e \in {x \in UserEdges : x[2] = u}}))
  /\ [][FollowResponds]_vars

\* A repeated follow has been answered 200 with the edge in place
C18_Witness ==
  /\ ret.op = "POST follow" /\ ret.status = 200
  /\ Edge(ret.user, ret.target) \in follows

\* C20 as claimed: an unfollow request for a followed user removes the edge and
\* answers 200 with is_following false and a follower_count equal to the
\* target's number of remaining followers; a follow response reports a
\* follower_count that includes the new edge; an unfollow request with no such
\* edge answers 404 and changes no edge and no count.
C20_FollowerCountReported ==
  [][/\ ret'.op = "DELETE unfollow" =>
          LET e == Edge(ret'.user, ret'.target) IN
          /\ e \in follows =>
               /\ ret'.status = 200 /\ ~ret'.is_following
               /\ follows' = follows \ {e}
               /\ ret'.follower_count = FollowersCount(follows', ret'.target)
          /\ e \notin follows =>
               /\ ret'.status = 404
               /\ UNCHANGED <<follows, follower_count, following_count>>
     /\ (ret'.op = "POST follow" /\ ret'.status = 201) =>
          ret'.follower_count = FollowersCount(follows', ret'.target)]_vars

\* The stored counts of every remaining user equal the numbers of its edges
CountsMatchEdges ==
  \A u \in accounts :
    /\ follower_count[u] = FollowersCount(follows, u)
    /\ following_count[u] = FollowingCount(follows, u)

\* What holds of the counts: they match after save() and delete() operations
\* that ran one after another with no user deleted
C19_CountsMatchSequential ==
  (ret.op \in {"POST follow", "DELETE unfollow"} /\ accounts = Users)
    => CountsMatchEdges

\* C19 as claimed: after any sequence of UserFollow save() and delete()
\* operations, one after another or interleaved between concurrent requests,
\* and after deleting a user whose edges go by cascade, every remaining user's
\* follower_count is the number of edges whose followed is that user and
\* following_count the number of edges whose follower is that user.
C19_CountsMatch ==
  (\A r \in Requests : reqs[r] = Idle) => CountsMatchEdges

(***************************************************************************)
(* Expiry of cache entries                                                 *)
(***************************************************************************)
\* The operations that keep their result in the cache
CachedOps ==
  {"profile", "similar_users", "collaborative", "content", "similar_products",
   "from_following", "new_releases", "follow_ups", "trending", "top_rated"}

\* The cache key under which the call q keeps its own result
CallKey(q) ==
  CASE q.op = "profile" -> Key("profile", q.user, "", 0, 0)
    [] q.op = "similar_users" -> Key("similar_users", q.user, "", q.arg, 0)
    [] q.op = "collaborative" -> Key("collaborative", q.user, "", q.arg, 0)
    [] q.op = "content" -> Key("content", q.user, "", q.arg, 0)
    [] q.op = "similar_products" -> Key("similar_products", q.product, "", q.arg, 0)
    [] q.op = "from_following" -> Key("following", q.user, "", q.arg, 0)
    [] q.op = "new_releases" -> Key("new_releases", q.user, "", q.days, q.arg)
    [] q.op = "follow_ups" -> Key("follow_ups", q.user, "", q.arg, 0)
    [] q.op = "trending" -> Key("trending", "", "", q.days, q.arg)
    [] OTHER -> Key("top_rated", q.game_system, q.product_type, q.arg, 0)

\* The documented time-to-live of each kind of entry, in seconds
DocumentedTTL(kind) ==
  CASE kind = "profile" -> 60 * 60
    [] kind = "similar_users" -> 6 * 60 * 60
    [] kind = "collaborative" -> 60 * 60
    [] kind = "content" -> 60 * 60
    [] kind = "similar_products" -> 24 * 60 * 60
    [] kind = "following" -> 30 * 60
    [] kind = "new_releases" -> 60 * 60
    [] kind = "follow_ups" -> 60 * 60
    [] kind = "trending" -> 60 * 60
    [] OTHER -> 24 * 60 * 60

\* What the call q returns when it computes with no cache at all, on the data
\* of the current state
CacheFree(q) ==
  CASE q.op = "profile" -> {get_user_profile(q.user, <<>>).val}
    [] q.op = "similar_users" -> {get_similar_users(q.user, q.arg, <<>>).val}
    [] q.op = "collaborative" ->
         {r.val : r \in get_collaborative_recommendations(q.user, q.arg, <<>>)}
    [] q.op = "content" ->
         {r.val : r \in get_content_recommendations(q.user, q.arg, <<>>)}
    [] q.op = "similar_products" ->
         {r.val : r \in get_similar_products(q.product, q.arg, <<>>)}
    [] q.op = "from_following" ->
         {r.val : r \in get_from_following(q.user, q.arg, <<>>)}
    [] q.op = "new_releases" ->
         {r.val : r \in get_new_releases(q.user, q.days, q.arg, <<>>)}
    [] q.op = "follow_ups" -> {r.val : r \in get_follow_ups(q.user, q.arg, <<>>)}
    [] q.op = "trending" -> {r.val : r \in get_trending(q.days, q.arg, <<>>)}
    [] OTHER ->
         {r.val : r \in get_top_rated(q.game_system, q.product_type, q.arg, <<>>)}

\* The entry under k is in the cache and its time-to-live has elapsed
Expired(k) == k \in DOMAIN cache /\ cache[k].expires <= now

\* The step is a call of a cached operation whose own entry had expired
CallOnExpired ==
  /\ ret'.op \in CachedOps
  /\ "hit" \in DOMAIN ret'
  /\ Expired(CallKey(ret'))

\* Every entry a step writes expires its documented time-to-live after the step
StoredWithTTL ==
  \A k \in DOMAIN cache' :
     (k \notin DOMAIN cache \/ cache'[k] /= cache[k])
        => cache'[k].expires = now' + DocumentedTTL(k[1])

\* No step removes or changes an entry whose time-to-live has not elapsed
KeptUntilExpiry ==
  \A k \in DOMAIN cache :
     cache[k].expires > now => k \in DOMAIN cache' /\ cache'[k] = cache[k]

\* A call on an expired entry is not answered from it
ExpiredIsMiss == CallOnExpired => ~ret'.hit

\* The operations that read the result of another cached operation
ReadsThrough == {"collaborative", "content"}

\* C21 as stated: entries carry their documented time-to-live, nothing changes
\* them earlier, and the call that finds its entry expired returns what the
\* operation computes from the current data alone
C21_ExpiredRecomputesFromCurrent ==
  [][/\ StoredWithTTL
     /\ KeptUntilExpiry
     /\ ExpiredIsMiss
     /\ CallOnExpired => ret'.val \in CacheFree(ret')]_vars

\* C21: every entry is stored with its documented time-to-live and stays as it
\* is until that time has elapsed; the call that finds its own entry expired
\* computes again, and for every operation that reads no other cached result
\* (the profile among them) it returns what the operation computes from the
\* current data and stores exactly that
C21_ExpiryRecomputes ==
  [][/\ StoredWithTTL
     /\ KeptUntilExpiry
     /\ ExpiredIsMiss
     /\ (CallOnExpired /\ ret'.op \notin ReadsThrough)
          => /\ ret'.val \in CacheFree(ret')
             /\ ret'.op /= "new_releases"
                  => cache'[CallKey(ret')].value = ret'.val]_vars

\* A profile call found the entry expired after a new rating and returned the
\* profile of the current data: the content list stored at the start, which
\* brought the profile entry with it, is still in the cache
C21_Witness ==
  /\ ret.op = "profile" /\ ~ret.hit /\ now >= 60 * 60
  /\ ret.val = BuildProfile("user1")
  /\ "sci-fi" \in DOMAIN ret.val.tags
  /\ cache[CallKey(ret)] = [value |-> ret.val, expires |-> now + 60 * 60]
  /\ Key("content", "user1", "", MaxLimit, 0) \in DOMAIN cache
  /\ cache[Key("content", "user1", "", MaxLimit, 0)].expires = 60 * 60

(***************************************************************************)
(* From following                                                          *)
(***************************************************************************)
\* The Runs rated 4 or more of the users u follows directly, on products u
\* has no Run on
DirectRuns(u) ==
  {c \in Cells :
     /\ <<"user", u, c[1]>> \in follows
     /\ runs[c] /= NoRun /\ runs[c].rating >= 4
     /\ runs[<<u, c[2]>>] = NoRun}

\* The Run an entry of a from-following list stands for
RunOf(e) == <<e.source.id, e.product>>

\* C22: on a miss get_from_following returns one entry per Run rated 4 or more
\* of a directly followed user on a product the requester has no Run on, the
\* most recently updated first and as many as the limit allows, each entry
\* naming the user and the rating of its Run; users followed only through
\* another user contribute nothing, and without followed users the list is empty
C22_FromFollowing ==
  (ret.op = "from_following" /\ ~ret.hit) =>
    LET u == ret.user
        val == ret.val
    IN /\ Len(val) = Min(ret.arg, Cardinality(DirectRuns(u)))
       /\ \A i \in DOMAIN val :
             /\ RunOf(val[i]) \in DirectRuns(u)
             /\ val[i].source.type = "user"
             /\ val[i].source.rating = runs[RunOf(val[i])].rating
             /\ val[i].score = runs[RunOf(val[i])].updated_at
             /\ val[i].reason = "from_following"
       /\ \A i, j \in DOMAIN val :
             i < j => /\ RunOf(val[i]) /= RunOf(val[j])
                      /\ val[i].score >= val[j].score
       /\ \A c \in DirectRuns(u) :
             (\A i \in DOMAIN val : RunOf(val[i]) /= c)
                => \A i \in DOMAIN val : val[i].score >= runs[c].updated_at
       /\ (\A v \in Users : <<"user", u, v>> \notin follows) => val = <<>>

\* A list computed for user1, who follows user2 and through user2 only user3:
\* it holds a Run of user2 that was updated after both were created ahead of
\* another Run of user2, while user3 has a Run rated 4 or more on a product
\* user1 has no Run on
C22_Witness ==
  /\ ret.op = "from_following" /\ ~ret.hit /\ ret.user = "user1"
  /\ Len(ret.val) = 2
  /\ runs[RunOf(ret.val[1])].created_at < runs[RunOf(ret.val[1])].updated_at
  /\ runs[RunOf(ret.val[1])].created_at <= runs[RunOf(ret.val[2])].created_at
  /\ ret.val[1].score > ret.val[2].score
  /\ <<"user", "user1", "user3">> \notin follows
  /\ <<"user", "user2", "user3">> \in follows
  /\ \E p \in Products :
        /\ runs[<<"user3", p>>] /= NoRun /\ runs[<<"user3", p>>].rating >= 4
        /\ runs[<<"user1", p>>] = NoRun

(***************************************************************************)
(* New releases                                                            *)
(***************************************************************************)
\* The publisher of p or one of its credited authors is followed by u
FromFollowedSource(u, p) ==
  \/ <<"publisher", u, Catalog[p].publisher>> \in follows
  \/ \E a \in Catalog[p].authors : <<"author", u, a>> \in follows

\* The list val of products is what a new-releases call of u may return
NewReleasesAsDocumented(u, days, limit, val) ==
  /\ Len(val) <= limit
  /\ \A i \in DOMAIN val :
        /\ pstatus[val[i]] = "published"
        /\ Catalog[val[i]].created_at >= now - days * 24 * 60 * 60
        /\ FromFollowedSource(u, val[i])
  /\ \A i, j \in DOMAIN val :
        i < j => /\ val[i] /= val[j]
                 /\ Catalog[val[i]].created_at >= Catalog[val[j]].created_at
  /\ (\A p \in Products : ~FromFollowedSource(u, p)) => val = <<>>

\* C23: every list get_new_releases returns, computed or rebuilt from the
\* cached ids, holds only published products created within the window whose
\* publisher or a credited author the requester follows, each once, the most
\* recent first and at most limit of them, and is empty when the requester
\* follows no publisher and no author
C23_NewReleases ==
  ret.op = "new_releases" =>
    NewReleasesAsDocumented(ret.user, ret.days, ret.arg, ret.val)

\* The same for the lists computed on a miss
C23_NewReleasesOnMiss ==
  (ret.op = "new_releases" /\ ~ret.hit) =>
    NewReleasesAsDocumented(ret.user, ret.days, ret.arg, ret.val)

\* A computed list holds, once, a product reached through its publisher and
\* through its author, ahead of an older product
C23_Witness ==
  /\ ret.op = "new_releases" /\ ~ret.hit
  /\ Len(ret.val) = 2 /\ ret.val[1] = "product3"
  /\ <<"publisher", ret.user, "pub1">> \in follows
  /\ <<"author", ret.user, "author1">> \in follows

(***************************************************************************)
(* Trending                                                                *)
(***************************************************************************)
\* The Runs on p created within the last days days
RunsWithin(p, days) ==
  {u \in Users : runs[<<u, p>>] /= NoRun
                  /\ runs[<<u, p>>].created_at >= now - days * 24 * 60 * 60}

\* Twice the documented score of p: 1.0 for each planned Run, 2.0 for each
\* completed Run and 0.5 for each note, every Run counted once
TwiceDocumentedScore(p, days) ==
  2 * Cardinality({u \in RunsWithin(p, days) : runs[<<u, p>>].status = "want_to_run"})
  + 4 * Cardinality({u \in RunsWithin(p, days) : runs[<<u, p>>].status = "completed"})
  + NotesOf(RunsWithin(p, days), p)

\* The published products that score at least 1
DocumentedTrending(days) ==
  {p \in Products : pstatus[p] = "published" /\ TwiceDocumentedScore(p, days) >= 2}

\* The list val is a trending list in which each product carries twice the
\* score score(p)
TrendingListOf(val, limit, days, S) ==
  /\ Len(val) = Min(limit, Cardinality(S))
  /\ \A i \in DOMAIN val :
        /\ val[i].product \in S
        /\ val[i].score = TwiceDocumentedScore(val[i].product, days)
        /\ val[i].reason = "trending"
  /\ \A i, j \in DOMAIN val :
        i < j => val[i].product /= val[j].product /\ val[i].score >= val[j].score
  /\ \A p \in S :
        (\A i \in DOMAIN val : val[i].product /= p)
           => \A i \in DOMAIN val : val[i].score >= TwiceDocumentedScore(p, days)

\* C24: the list get_trending computes on a miss holds the published products
\* whose Runs of the last days days score at least 1, a planned Run counting
\* 1.0, a completed Run 2.0 and a note 0.5 with every Run counted once, in
\* non-increasing order of score and at most limit of them
C24_Trending ==
  (ret.op = "trending" /\ ~ret.hit) =>
    TrendingListOf(ret.val, ret.arg, ret.days, DocumentedTrending(ret.days))

\* No Run carries two notes or more
AtMostOneNote == \A c \in Cells : notes[c] <= 1

\* The same while no Run has more than one note
C24_TrendingSingleNotes ==
  (ret.op = "trending" /\ ~ret.hit /\ AtMostOneNote) =>
    TrendingListOf(ret.val, ret.arg, ret.days, DocumentedTrending(ret.days))

(***************************************************************************)
(* Content-based recommendations                                           *)
(***************************************************************************)
\* The profile get_user_profile hands to a call of u that has just returned:
\* the entry it found or stored
ProfileInUse(u) == cache[Key("profile", u, "", 0, 0)].value

\* The published products without a Run of u that score more than 0 against
\* the profile
ContentEligible(u, profile) ==
  {p \in Products :
     /\ pstatus[p] = "published"
     /\ runs[<<u, p>>] = NoRun
     /\ _similarity_score(profile, Catalog[p]) > 0}

\* C25: on a miss get_content_recommendations returns the published products
\* the user has no Run on that score more than 0 against the user's profile,
\* in non-increasing order of score and as many as the limit allows; no
\* product with a Run of the user is in the list, and without a user the list
\* is empty
C25_ContentRecommendations ==
  (ret.op = "content" /\ ~ret.hit) =>
    IF ret.user = NoUser THEN ret.val = <<>>
    ELSE
      LET u == ret.user
          val == ret.val
          S == ContentEligible(u, ProfileInUse(u))
      IN /\ Len(val) = Min(ret.arg, Cardinality(S))
         /\ \A i \in DOMAIN val :
               /\ val[i].product \in S
               /\ runs[<<u, val[i].product>>] = NoRun
               /\ val[i].score = _similarity_score(ProfileInUse(u), Catalog[val[i].product])
         /\ \A i, j \in DOMAIN val :
               i < j => val[i].product /= val[j].product /\ val[i].score >= val[j].score
         /\ \A p \in S :
               (\A i \in DOMAIN val : val[i].product /= p)
                  => \A i \in DOMAIN val :
                        val[i].score >= _similarity_score(ProfileInUse(u), Catalog[p])

\* A list computed for user1 while one published product without a Run scores
\* 0, another is left out for the Run user1 has on it, and a draft is left out
C25_Witness ==
  /\ ret.op = "content" /\ ~ret.hit /\ ret.user = "user1"
  /\ ret.val /= <<>>
  /\ \E p \in Products :
        /\ pstatus[p] = "published" /\ runs[<<"user1", p>>] = NoRun
        /\ _similarity_score(ProfileInUse("user1"), Catalog[p]) = 0
  /\ \E p \in Products :
        /\ pstatus[p] = "published" /\ runs[<<"user1", p>>] /= NoRun
        /\ _similarity_score(ProfileInUse("user1"), Catalog[p]) > 0
  /\ \E p \in Products :
        /\ pstatus[p] /= "published" /\ runs[<<"user1", p>>] = NoRun
        /\ _similarity_score(ProfileInUse("user1"), Catalog[p]) > 0

(***************************************************************************)
(* Similar products                                                        *)
(***************************************************************************)
\* The profile made of the product's own features: its tags, themes and
\* genres once each, its game system, its publisher and its level range
OwnFeatures(p) ==
  [tags |-> [t \in Catalog[p].tags |-> 1],
   themes |-> [t \in Catalog[p].themes |-> 1],
   genres |-> [t \in Catalog[p].genres |-> 1],
   preferred_systems |-> {Catalog[p].game_system} \ {""},
   preferred_publishers |-> {Catalog[p].publisher} \ {""},
   level_range |->
     IF Catalog[p].level_range_min /= None /\ Catalog[p].level_range_max /= None
       THEN <<Catalog[p].level_range_min, Catalog[p].level_range_max>>
       ELSE NoRange,
   typical_party_size |-> None]

\* The other published products that score more than 0.1 against that profile
SimilarEligible(p) ==
  {q \in Products \ {p} :
     /\ pstatus[q] = "published"
     /\ 10 * _similarity_score(OwnFeatures(p), Catalog[q]) > ScoreScale}

\* The call that has just returned answered as documented: a computed list holds
\* the eligible products with their scores, the best first and as many as the
\* limit allows; a list taken from the cache is the entry of (product, limit);
\* the product itself is in neither
SimilarProductsAsDocumented ==
  LET p == ret.product
      val == ret.val
      S == SimilarEligible(p)
  IN /\ \A i \in DOMAIN val : val[i].product /= p
     /\ ret.hit => val = cache[Key("similar_products", p, "", ret.arg, 0)].value
     /\ ~ret.hit =>
          /\ Len(val) = Min(ret.arg, Cardinality(S))
          /\ \A i \in DOMAIN val :
                /\ val[i].product \in S
                /\ val[i].score = _similarity_score(OwnFeatures(p), Catalog[val[i].product])
          /\ \A i, j \in DOMAIN val :
                i < j => val[i].product /= val[j].product /\ val[i].score >= val[j].score
          /\ \A q \in S :
                (\A i \in DOMAIN val : val[i].product /= q)
                   => \A i \in DOMAIN val :
                         val[i].score >= _similarity_score(OwnFeatures(p), Catalog[q])

\* C26: get_similar_products scores every other published product against the
\* profile made of the product's own tags, themes, genres, game system,
\* publisher and level range, returns those scoring more than 0.1 in
\* non-increasing order of score up to the limit, never the product itself,
\* and answers every requester from the one cache entry of (product, limit)
C26_SimilarProducts ==
  ret.op = "similar_products" => SimilarProductsAsDocumented

\* The same for the products whose level range does not start or end at 0
C26_SimilarProductsNonZero ==
  (/\ ret.op = "similar_products"
   /\ Catalog[ret.product].level_range_min /= 0
   /\ Catalog[ret.product].level_range_max /= 0) => SimilarProductsAsDocumented

(***************************************************************************)
(* Suggested follows                                                       *)
(***************************************************************************)
\* The users other than u whom u does not follow and who rated 4 or more at
\* least 2 of the products u rated 4 or more
SuggestedUsers(u) ==
  {v \in Users \ {u} :
     /\ <<"user", u, v>> \notin follows
     /\ Cardinality(SharedLiked(u, v)) >= 2}

\* C27: get_suggested_follows returns users the requester does not follow who
\* share at least 2 products rated 4 or more with the requester, the user with
\* more shared products first and at most limit of them, and the empty list
\* when the requester is anonymous or rated no product 4 or more
C27_SuggestedFollows ==
  ret.op = "suggested_follows" =>
    /\ ret.error = "none"
    /\ Len(ret.val) =
         IF ret.user = NoUser THEN 0
         ELSE Min(ret.arg, Cardinality(SuggestedUsers(ret.user)))
    /\ \A i \in DOMAIN ret.val :
          /\ ret.val[i].user \in SuggestedUsers(ret.user)
          /\ ret.val[i].shared_products
               = Cardinality(SharedLiked(ret.user, ret.val[i].user))
    /\ \A i, j \in DOMAIN ret.val :
          i < j => /\ ret.val[i].user /= ret.val[j].user
                   /\ ret.val[i].shared_products >= ret.val[j].shared_products

\* The part of it for a requester who is anonymous or rated nothing 4 or more
C27_SuggestedFollowsNoSignal ==
  (/\ ret.op = "suggested_follows"
   /\ \A p \in Products :
         ret.user = NoUser \/ runs[<<ret.user, p>>] = NoRun
            \/ runs[<<ret.user, p>>].rating < 4)
     => ret.error = "none" /\ ret.val = <<>>

(***************************************************************************)
(* Empty results and the cache                                             *)
(***************************************************************************)
\* The recommenders that leave before their cache.set on some inputs
EarlyExitOps == {"collaborative", "content", "from_following", "follow_ups"}

\* The lists a call like q can return in the current state
NextCallValues(q) ==
  CASE q.op = "collaborative" ->
         {r.val : r \in get_collaborative_recommendations(q.user, q.arg, cache)}
    [] q.op = "content" ->
         {r.val : r \in get_content_recommendations(q.user, q.arg, cache)}
    [] q.op = "from_following" ->
         {r.val : r \in get_from_following(q.user, q.arg, cache)}
    [] OTHER -> {r.val : r \in get_follow_ups(q.user, q.arg, cache)}

\* Whatever a call like q returns now is computed from the current data
NextCallFresh(q) == NextCallValues(q) \subseteq CacheFree(q)

\* The call q, which has just returned, missed its entry and left early: its
\* user is anonymous, or has no similar users, follows no user, or has
\* completed no Run
EarlyExit(q) ==
  /\ q.op \in EarlyExitOps /\ "hit" \in DOMAIN q
  /\ ~q.hit
  /\ \/ q.user = NoUser
     \/ q.op = "collaborative" /\ get_similar_users(q.user, 2, cache).val = {}
     \/ q.op = "from_following"
          /\ \A v \in Users : <<"user", q.user, v>> \notin follows
     \/ q.op = "follow_ups"
          /\ \A p \in Products :
                runs[<<q.user, p>>] = NoRun \/ runs[<<q.user, p>>].status /= "completed"

\* A call that left early returned [] and left no live entry under its key
EarlyExitWritesNothing ==
  EarlyExit(ret) => ret.val = <<>> /\ ~CacheHit(cache, CallKey(ret))

\* A call that finds a live entry holding [] returns [] from it
EmptyEntryHits ==
  (/\ ret'.op \in EarlyExitOps /\ "hit" \in DOMAIN ret'
   /\ CacheHit(cache, CallKey(ret'))
   /\ cache[CallKey(ret')].value = <<>>) => ret'.hit /\ ret'.val = <<>>

\* The similar users of q's user are answered from a live cache entry
SimilarUsersCached(q) ==
  q.op = "collaborative" /\ CacheHit(cache, Key("similar_users", q.user, "", 2, 0))

\* C28 as stated: a stored [] is a hit until it expires, and after a call that
\* left early with [] the next call, whatever was written to the data store in
\* between, computes its list from the current data
C28_EarlyExitRecomputes ==
  /\ []EarlyExitWritesNothing
  /\ [][/\ EmptyEntryHits
        /\ \A q \in {ret} :
             (EarlyExit(q) /\ ret' = NoCall) => NextCallFresh(q)']_vars

\* C28: a stored [] is a hit until it expires; a call that leaves early with []
\* writes nothing under its own key, and the call after it computes its list
\* from the current data unless it is a collaborative call that finds the
\* similar users in the cache
C28_EmptyHits ==
  /\ []EarlyExitWritesNothing
  /\ [][/\ EmptyEntryHits
        /\ \A q \in {ret} :
              (EarlyExit(q) /\ ret' = NoCall)
                 => (SimilarUsersCached(q) \/ NextCallFresh(q))']_vars

\* A call answered [] from the cache while the current data give a non-empty
\* list, after qualifying data appeared
C28_Witness ==
  /\ ret.op \in EarlyExitOps /\ "hit" \in DOMAIN ret
  /\ ret.hit /\ ret.val = <<>>
  /\ <<>> \notin CacheFree(ret)

(***************************************************************************)
(* Nested caches and the age of a recommendation list                      *)
(***************************************************************************)
\* The instant of the last write to the Run table: every write stamps
\* updated_at (auto_now), and the scenario deletes no Run
LastWrite ==
  LET stamps == {runs[c].updated_at : c \in RunCells} IN
  IF stamps = {} THEN 0 ELSE CHOOSE m \in stamps : \A n \in stamps : n <= m

\* The longest a nested result can be behind the list that was built on it:
\* the list's own hour and the time-to-live of the entry it read through
NestedWindow(op) ==
  IF op = "collaborative" THEN 60 * 60 + 6 * 60 * 60
  ELSE 60 * 60 + 60 * 60

\* The last call was a collaborative or content call whose list is one a
\* cache-free computation gives on the current data
ListIsCurrent ==
  (ret.op \in ReadsThrough /\ "hit" \in DOMAIN ret) => ret.val \in CacheFree(ret)

\* C29 as stated, on behaviours whose data has not changed for more than an
\* hour: the data of every instant in [t - 1 h, t] is then the current data, so
\* the list a collaborative or content call returns at t is the cache-free list
\* of the current data
C29_WithinListTTL ==
  (ret.op \in ReadsThrough /\ LastWrite + 60 * 60 < now) => ListIsCurrent

\* The same for the content call alone, which reads the profile through its
\* own entry
ContentWithinListTTL ==
  (ret.op = "content" /\ LastWrite + 60 * 60 < now) => ListIsCurrent

\* C29: the list a collaborative or content call returns is the cache-free
\* list of the current data once the data has been unchanged for the list's
\* hour plus the time-to-live of the nested entry (7 h for the similar users,
\* 2 h for the profile)
C29_WithinNestedTTL ==
  (ret.op \in ReadsThrough /\ LastWrite + NestedWindow(ret.op) <= now)
     => ListIsCurrent

\* A collaborative or content call returned a non-empty list, a nested window
\* or more after a Run was written later than the start
C29_Witness ==
  /\ ret.op \in ReadsThrough /\ "hit" \in DOMAIN ret
  /\ ret.val /= <<>>
  /\ LastWrite > 0
  /\ LastWrite + NestedWindow(ret.op) <= now

(***************************************************************************)
(* Products repeated in a list                                             *)
(***************************************************************************)
\* The operations that return a list of products
ListOps ==
  {"collaborative", "content", "similar_products", "from_following",
   "new_releases", "follow_ups", "trending", "top_rated"}

\* The products of the list the call q returned, in order
ProductsOf(q) ==
  IF q.op = "new_releases" THEN q.val
  ELSE [i \in DOMAIN q.val |-> q.val[i].product]

NoRepeat(products) ==
  \A i, j \in DOMAIN products : products[i] = products[j] => i = j

FollowUpsNoDuplicates ==
  (ret.op = "follow_ups" /\ "hit" \in DOMAIN ret) => NoRepeat(ProductsOf(ret))

\* The same for the recommenders other than follow-ups and from-following
NoDuplicatesElsewhere ==
  (ret.op \in ListOps \ {"follow_ups", "from_following"} /\ "hit" \in DOMAIN ret)
     => NoRepeat(ProductsOf(ret))

(***************************************************************************)
(* Specifications                                                          *)
(***************************************************************************)
\* The products on which the scenarios create Runs
RatedProducts == {"product1", "product2", "product3", "product4"}

\* The users whose Runs the collaborative scenarios vary
Raters == {"user1", "user2", "user3"}

\* The kinds of run the environment creates: unrated, and rated 3, 4, 5
RunKinds ==
  {<<"want_to_run", None>>, <<"completed", 3>>, <<"completed", 4>>,
   <<"completed", 5>>}

\* The users whose requests are explored; the other users supply ratings
Requesters == {"user1", NoUser}

NextSimilar ==
  \/ \E u \in Raters, p \in RatedProducts, k \in RunKinds :
        CreateRun(u, p, k[1], k[2], None)
  \/ \E u \in {"user3", NoUser}, m \in 1..MaxOverlap :
        SimilarUsersCall(u, m)

SpecSimilar == InitFixture /\ [][NextSimilar]_vars

NextCollab ==
  \/ \E u \in Raters, p \in RatedProducts, k \in RunKinds :
        CreateRun(u, p, k[1], k[2], None)
  \/ \E u \in Requesters, l \in 1..MaxLimit : CollaborativeCall(u, l)

SpecCollab == InitFixture /\ [][NextCollab]_vars

\* The Runs of the requester: planned, in progress and completed
OwnRunKinds ==
  {<<"want_to_run", None>>, <<"running", None>>, <<"completed", 5>>}

\* The edges along which relations are created
RelationEdges ==
  {<<"product1", "product3">>, <<"product2", "product4">>}

\* Follow-ups under changing Runs, over a relation type of the priority table
\* and the one outside it
NextFollowUps ==
  \/ \E p \in RatedProducts, k \in OwnRunKinds :
        Cardinality(RunCells) < MaxOwnRuns /\ CreateRun("user1", p, k[1], k[2], None)
  \/ \E e \in RelationEdges, t \in {"sequel", "compilation"} :
        AddRelation(e[1], e[2], t)
  \/ \E u \in Requesters, l \in 1..MaxLimit : FollowUpsCall(u, l)

SpecFollowUps == Init /\ [][NextFollowUps]_vars

\* Follow-ups over every relation type, from the completed source products
NextFollowUpOrder ==
  \/ \E p \in {"product1", "product2"} : CreateRun("user1", p, "completed", 5, None)
  \/ \E e \in RelationEdges, t \in RelationType : AddRelation(e[1], e[2], t)
  \/ \E l \in 1..MaxLimit : FollowUpsCall("user1", l)

SpecFollowUpOrder == Init /\ [][NextFollowUpOrder]_vars

\* Runs with and without the number of players recorded
PartyRunKinds ==
  {<<"want_to_run", None, None>>, <<"completed", 5, 3>>, <<"completed", 4, None>>}

NextColdStart ==
  \/ \E p \in {"product1", "product2"}, k \in PartyRunKinds :
        CreateRun("newuser", p, k[1], k[2], k[3])
  \/ \E p \in Products : DeleteRun("newuser", p)
  \/ \E u \in {"newuser", NoUser} : ProfileCall(u)
  \/ ContentCall("newuser", MaxLimit)
  \/ CollaborativeCall("newuser", MaxLimit)

SpecColdStart == InitFixture /\ [][NextColdStart]_vars

\* The instants at which the model observes the store: the start, and the
\* first instant at which a Run created at the start is older than 30 days (an
\* entry cached at the start has expired by then)
Instants == {0, 30 * SecondsPerDay + 1}

NextHomeFeed ==
  \/ \E u \in {"user1", "user2"}, p \in {"product1", "product4"}, k \in OwnRunKinds :
        Cardinality(RunCells) < MaxOwnRuns /\ CreateRun(u, p, k[1], k[2], None)
  \/ \E p \in {"product1", "product4"} : AddNote("user1", p)
  \/ \E t \in Instants : Tick(t)
  \/ ForYouCall(NoUser)
  \/ ListCall(NoUser)

SpecHomeFeed == Init /\ [][NextHomeFeed]_vars

\* The filter pairs requested of get_top_rated; "" is a filter not supplied
TopRatedFilters ==
  {<<"", "">>, <<"test-system", "adventure">>, <<"test-system", "sourcebook">>,
   <<"other-system", "">>}

\* A Run without a rating and a Run with one
RatedRunKinds == {<<"want_to_run", None>>, <<"completed", 5>>}

NextTopRated ==
  \/ \E u \in {"user3", "newuser"}, p \in RatedProducts, k \in RatedRunKinds :
        CreateRun(u, p, k[1], k[2], None)
  \/ \E st \in ProductStatus : SetStatus("product1", st)
  \/ \E f \in TopRatedFilters : TopRatedCall(f[1], f[2], MaxLimit)

SpecTopRated == InitFixture /\ [][NextTopRated]_vars

\* Profiles and products for _similarity_score on its own
SimilarityProfiles ==
  {[tags |-> [t \in tg |-> 1], themes |-> [t \in th |-> 1],
    genres |-> [t \in ge |-> 1], preferred_systems |-> sy,
    preferred_publishers |-> pu, level_range |-> lr, typical_party_size |-> None] :
     tg \in SUBSET {"fantasy", "magic"}, th \in SUBSET {"dark"},
     ge \in SUBSET {"adventure"}, sy \in SUBSET {"test-system"},
     pu \in SUBSET {"pub1"}, lr \in {NoRange, <<1, 3>>, <<4, 5>>}}

SimilarityProducts ==
  {[tags |-> tg, themes |-> th, genres |-> ge, game_system |-> sy,
    publisher |-> pu, level_range_min |-> lv[1], level_range_max |-> lv[2]] :
     tg \in {{}, {"fantasy"}, {"combat"}}, th \in SUBSET {"dark"},
     ge \in SUBSET {"adventure"}, sy \in {"", "test-system"},
     pu \in {"", "pub1"},
     lv \in {<<None, None>>, <<0, 2>>, <<2, 4>>, <<4, None>>}}

\* One call on a fresh service per behaviour
NextSimilarity ==
  /\ ret = NoCall
  /\ \E profile \in SimilarityProfiles, product \in SimilarityProducts :
        SimilarityCall(profile, product)

SpecSimilarity == Init /\ [][NextSimilarity]_vars

\* Inclusive integer ranges [a, b] with a <= b
Ranges == {r \in (0..MaxLevel) \X (0..MaxLevel) : r[1] <= r[2]}

NextRangeOverlap ==
  /\ ret = NoCall
  /\ \E range1 \in Ranges, range2 \in Ranges : RangeOverlapCall(range1, range2)

SpecRangeOverlap == Init /\ [][NextRangeOverlap]_vars

\* The Runs of the profile scenarios: rated 3, 4, 5 or unrated, with and
\* without a player count
ProfileRunKinds ==
  {<<"completed", 5, 3>>, <<"completed", 4, 4>>, <<"completed", 4, 6>>,
   <<"completed", 3, 6>>, <<"completed", None, 5>>, <<"playing", 5, None>>}

NextProfile ==
  \/ /\ Cardinality(RunCells) < MaxOwnRuns
     /\ \E p \in Products \ {"product2"}, k \in ProfileRunKinds :
          CreateRun("user1", p, k[1], k[2], k[3])
  \/ ProfileCall("user1")

SpecProfile == Init /\ [][NextProfile]_vars

\* The number of cache entries after which the scenario makes no further call
MaxCached == 2

\* Every engine operation, called by user1 over the service-test fixture while
\* follow edges, a relation and an unrated Run come and go
NextEngine ==
  \/ Follow("user", "user1", "user2")
  \/ Follow("publisher", "user1", "pub1")
  \/ AddRelation("product1", "product3", "sequel")
  \/ CreateRun("user1", "product4", "want_to_run", None, None)
  \/ DeleteRun("user1", "product4")
  \/ /\ Cardinality(DOMAIN cache) < MaxCached
     /\ \/ ProfileCall("user1")
        \/ SimilarUsersCall("user1", MaxOverlap)
        \/ CollaborativeCall("user1", MaxLimit)
        \/ ContentCall("user1", MaxLimit)
        \/ SimilarProductsCall("product1", MaxLimit)
        \/ FromFollowingCall("user1", MaxLimit)
        \/ NewReleasesCall("user1", 30, MaxLimit)
        \/ SuggestedFollowsCall("user1", MaxLimit)
        \/ FollowUpsCall("user1", MaxLimit)
        \/ TrendingCall(30, MaxLimit)
        \/ TopRatedCall("", "", MaxLimit)
        \/ ForYouCall("user1")

SpecEngine == InitFixture /\ [][NextEngine]_vars

\* Calls that succeed and calls in which a read fails, over the service-test
\* fixture, while an unrated Run comes and goes
NextFailure ==
  \/ CreateRun("user1", "product4", "want_to_run", None, None)
  \/ DeleteRun("user1", "product4")
  \/ Follow("user", "user1", "user2")
  \/ Follow("publisher", "user1", "pub1")
  \/ /\ Cardinality(DOMAIN cache) < MaxCached
     /\ \/ TrendingCall(30, MaxLimit)
        \/ CollaborativeCall("user1", MaxLimit)
        \/ ContentCall("user1", MaxLimit)
        \/ TrendingRaisesCall(30, MaxLimit)
        \/ \E u \in Requesters : CollaborativeRaisesCall(u, MaxLimit)
        \/ \E u \in Requesters : ContentRaisesCall(u, MaxLimit)
        \/ \E u \in Requesters : ForYouRaisesCall(u)

SpecFailure == InitFixture /\ [][NextFailure]_vars

\* The parameter values of the scenario: not sent, malformed, negative, zero,
\* within range, and over the ceiling
LimitParams == {Absent, Text, Number(0 - 1), Number(0), Number(MaxLimit),
                Number(CEILING_LIMIT + 1)}
DaysParams == {Absent, Text, Number(CEILING_DAYS + 1)}

NextClamp ==
  \/ \E p \in {"product1", "product2"} : CreateRun("user1", p, "completed", 5, None)
  \/ /\ Cardinality(DOMAIN cache) < MaxCached
     /\ \E days_param \in DaysParams, limit_param \in LimitParams :
          TrendingRequest(days_param, limit_param)

SpecClamp == Init /\ [][NextClamp]_vars

\* Two requests at a time on the service-test fixture; a Run is created only
\* while no request is in progress
NextConcurrent ==
  \/ /\ \A r \in Requests : reqs[r] = Idle
     /\ \E p \in {"product1", "product3"} : CreateRun("newuser", p, "completed", 5, None)
  \/ \E r \in Requests : Begin(r, "trending", NoUser, MaxLimit)
  \/ \E r \in Requests : Begin(r, "collaborative", "user1", MaxLimit)
  \/ \E r \in Requests : Step(r)

SpecConcurrent == InitFixture /\ [][NextConcurrent]_vars

\* The users of the follow scenarios
Followers == {"user1", "user2", "user3"}

NextFollow ==
  \/ \E u \in Followers, target \in Followers : FollowRequest(u, target)
  \/ \E u \in Followers, target \in Followers : UnfollowRequest(u, target)

SpecFollow == Init /\ [][NextFollow]_vars

\* The follows the scenario makes and removes
FollowPairs == {<<"user1", "user3">>, <<"user2", "user3">>}

\* save() and delete() of two requests interleaved, and a user deleted while
\* no request is in progress
NextFollowCounts ==
  \/ \E r \in Requests, e \in FollowPairs : SaveBegin(r, e[1], e[2])
  \/ \E r \in Requests, e \in FollowPairs : DeleteBegin(r, e[1], e[2])
  \/ \E r \in Requests :
       CountFollowers(r) \/ SaveFollowed(r) \/ CountFollowing(r) \/ SaveFollower(r)
  \/ /\ \A r \in Requests : reqs[r] = Idle
     /\ DeleteUser("user3")

SpecFollowCounts == Init /\ [][NextFollowCounts]_vars

\* The run table of the service tests, with user1 following user2 and pub1
InitFollowing ==
  /\ pstatus = InitialStatus
  /\ runs = FixtureRuns
  /\ notes = [c \in Cells |-> 0]
  /\ relations = {}
  /\ follows = {<<"user", "user1", "user2">>, <<"publisher", "user1", "pub1">>}
  /\ accounts = Users
  /\ follower_count = [u \in Users |-> IF u = "user2" THEN 1 ELSE 0]
  /\ following_count = [u \in Users |-> IF u = "user1" THEN 1 ELSE 0]
  /\ reqs = [r \in Requests |-> Idle]
  /\ cache = <<>>
  /\ now = 0
  /\ ret = NoCall

\* One hour, six hours and a day after the start
ExpiryInstants == {60 * 60, 6 * 60 * 60, 24 * 60 * 60}

\* The operations whose entries a call can read or write together: the
\* collaborative list with the similar users, the content list with the profile
CacheGroup(kind) ==
  CASE kind \in {"collaborative", "similar_users"} -> "collaborative"
    [] kind \in {"content", "profile"} -> "content"
    [] OTHER -> kind

\* Every cached operation called for user1 as time passes, a new rating by
\* user1 and a Run of user2 deleted; a behaviour keeps to one group of entries
NextExpiry ==
  \/ CreateRun("user1", "product3", "completed", 5, None)
  \/ DeleteRun("user2", "product1")
  \/ \E t \in ExpiryInstants : Tick(t)
  \/ /\ \/ ProfileCall("user1")
        \/ SimilarUsersCall("user1", 2)
        \/ CollaborativeCall("user1", MaxLimit)
        \/ ContentCall("user1", MaxLimit)
        \/ SimilarProductsCall("product1", MaxLimit)
        \/ FromFollowingCall("user1", MaxLimit)
        \/ NewReleasesCall("user1", 30, MaxLimit)
        \/ FollowUpsCall("user1", MaxLimit)
        \/ TrendingCall(30, MaxLimit)
        \/ TopRatedCall("", "", MaxLimit)
     /\ \A k, l \in DOMAIN cache' : CacheGroup(k[1]) = CacheGroup(l[1])

SpecExpiry == InitFollowing /\ [][NextExpiry]_vars

\* The number of Runs of the from-following scenario
MaxFeedRuns == 3

\* The instant after the start of the from-following scenario
FeedInstants == {10}

\* user1 follows user2 and user2 follows user3; user2 and user3 create Runs,
\* user2 re-rates one, and user1 creates a Run of its own
NextFollowing ==
  \/ \E e \in {<<"user1", "user2">>, <<"user2", "user3">>} :
        Follow("user", e[1], e[2])
  \/ /\ Cardinality(RunCells) < MaxFeedRuns
     /\ \/ \E p \in {"product1", "product2"}, rating \in {3, 5} :
             CreateRun("user2", p, "completed", rating, None)
        \/ CreateRun("user3", "product3", "completed", 5, None)
        \/ CreateRun("user1", "product1", "want_to_run", None, None)
  \/ RateRun("user2", "product1", 4)
  \/ \E t \in FeedInstants : Tick(t)
  \/ /\ Cardinality(DOMAIN cache) < MaxCached
     /\ \E l \in 1..MaxLimit : FromFollowingCall("user1", l)

SpecFollowing == Init /\ [][NextFollowing]_vars

\* user1 follows a publisher and an author; a product is withdrawn and
\* published again; the products age past the 30-day window
NextNewReleases ==
  \/ Follow("publisher", "user1", "pub1")
  \/ Follow("author", "user1", "author1")
  \/ \E st \in {"draft", "published"} : SetStatus("product3", st)
  \/ Tick(30 * SecondsPerDay + 1)
  \/ /\ Cardinality(DOMAIN cache) < MaxCached
     /\ \E days \in {30, 365}, l \in 1..MaxLimit : NewReleasesCall("user1", days, l)

SpecNewReleases == Init /\ [][NextNewReleases]_vars

\* Runs of every status on a published and on a draft product, notes on a Run,
\* and the Runs ageing past the 30-day window
NextTrending ==
  \/ \E u \in {"user1", "user2"}, p \in {"product1", "product4"}, k \in OwnRunKinds :
        Cardinality(RunCells) < MaxOwnRuns /\ CreateRun(u, p, k[1], k[2], None)
  \/ \E p \in {"product1", "product4"} : AddNote("user1", p)
  \/ \E t \in Instants : Tick(t)
  \/ /\ Cardinality(DOMAIN cache) < MaxCached
     /\ \E l \in 1..MaxLimit : TrendingCall(30, l)

SpecTrending == Init /\ [][NextTrending]_vars

\* user1 of the service tests adds Runs, a product is published and withdrawn,
\* and the profile and the content list are requested, also by nobody
NextContent ==
  \/ \E p \in {"product3", "product5"}, k \in RatedRunKinds :
        CreateRun("user1", p, k[1], k[2], None)
  \/ \E p \in {"product3", "product4"}, st \in {"draft", "published"} : SetStatus(p, st)
  \/ /\ Cardinality(DOMAIN cache) < MaxCached
     /\ \/ ProfileCall("user1")
        \/ \E u \in Requesters, l \in 1..MaxLimit : ContentCall(u, l)

SpecContent == InitFixture /\ [][NextContent]_vars

\* The similar products of a product with a level range from 1, of one with a
\* level range from 0 and of one without, while products are published and
\* withdrawn
NextSimilarProducts ==
  \/ \E p \in {"product2", "product4"}, st \in {"draft", "published"} : SetStatus(p, st)
  \/ /\ Cardinality(DOMAIN cache) < MaxCached
     /\ \E p \in {"product1", "product4", "product5"}, l \in 1..MaxLimit :
          SimilarProductsCall(p, l)

SpecSimilarProducts == Init /\ [][NextSimilarProducts]_vars

\* user1 and user2 rate two products, user1 comes to follow user2, and
\* suggestions are requested by user1 and by nobody
NextSuggested ==
  \/ \E u \in {"user1", "user2"}, p \in {"product1", "product2"}, k \in RunKinds :
        CreateRun(u, p, k[1], k[2], None)
  \/ Follow("user", "user1", "user2")
  \/ \E u \in Requesters : SuggestedFollowsCall(u, MaxLimit)

SpecSuggested == Init /\ [][NextSuggested]_vars

\* Data under which each of the four recommenders leaves early, computes [],
\* and computes a non-empty list, with the calls by user1, newuser and nobody;
\* a behaviour keeps to one group of entries
NextEmpty ==
  \/ DeleteRun("user2", "product1")
  \/ CreateRun("user2", "product1", "completed", 5, None)
  \/ CreateRun("user1", "product3", "want_to_run", None, None)
  \/ DeleteRun("user1", "product3")
  \/ CreateRun("newuser", "product1", "completed", 5, None)
  \/ Follow("user", "user1", "user2")
  \/ AddRelation("product1", "product3", "sequel")
  \/ /\ \/ \E u \in Requesters : CollaborativeCall(u, MaxLimit)
        \/ \E u \in {"newuser", NoUser} : ContentCall(u, MaxLimit)
        \/ \E u \in Requesters : FromFollowingCall(u, MaxLimit)
        \/ \E u \in {"user1", "newuser", NoUser} : FollowUpsCall(u, MaxLimit)
     /\ \A k, l \in DOMAIN cache' : CacheGroup(k[1]) = CacheGroup(l[1])

SpecEmpty == InitFixture /\ [][NextEmpty]_vars

\* Half an hour, just over one hour, two, seven and eight hours after the start
NestedInstants == {30 * 60, 60 * 60 + 1, 2 * 60 * 60, 7 * 60 * 60, 8 * 60 * 60}

\* user1 asks for collaborative and content recommendations as time passes;
\* the rating user2 gave product1 is rewritten, and user1 rates a third
\* product; a behaviour keeps to one group of entries
NextNested ==
  \/ \E rating \in {3, 5} : RateRun("user2", "product1", rating)
  \/ CreateRun("user1", "product3", "completed", 5, None)
  \/ \E t \in NestedInstants : Tick(t)
  \/ /\ \/ ProfileCall("user1")
        \/ SimilarUsersCall("user1", 2)
        \/ CollaborativeCall("user1", MaxLimit)
        \/ ContentCall("user1", MaxLimit)
     /\ \A k, l \in DOMAIN cache' : CacheGroup(k[1]) = CacheGroup(l[1])

SpecNested == InitFixture /\ [][NextNested]_vars

\* user1, who completed product1 and product2 and follows user2, follows user3
\* as well; relations of two types lead from the completed products to
\* product3, which user2 and user3 both rated 5; every list is asked for
NextDuplicates ==
  \/ Follow("user", "user1", "user3")
  \/ \E p \in {"product1", "product2"}, t \in {"sequel", "prequel"} :
        AddRelation(p, "product3", t)
  \/ /\ \/ CollaborativeCall("user1", MaxLimit)
        \/ ContentCall("user1", MaxLimit)
        \/ SimilarProductsCall("product1", MaxLimit)
        \/ FromFollowingCall("user1", MaxLimit)
        \/ NewReleasesCall("user1", 30, MaxLimit)
        \/ FollowUpsCall("user1", MaxLimit)
        \/ TrendingCall(30, MaxLimit)
        \/ TopRatedCall("", "", MaxLimit)
     /\ \A k, l \in DOMAIN cache' : CacheGroup(k[1]) = CacheGroup(l[1])

SpecDuplicates == InitFollowing /\ [][NextDuplicates]_vars

====
